---- MODULE Spec2Model ----
(***************************************************************************)
(* A model of the monster-regex library: the recursive-descent pattern    *)
(* parser (src/src/parser/mod.rs), the backtracking match engine           *)
(* (src/src/engine/mod.rs) and the Regex facade (src/src/regex/mod.rs).    *)
(*                                                                         *)
(* Characters are one-element strings.  A pattern is a sequence of         *)
(* characters (Parser::input is a Vec<char>); a text is a sequence of      *)
(* characters whose UTF-8 encoding is made explicit (Utf8), because the    *)
(* engine works with byte offsets into a &str.                             *)
(***************************************************************************)
EXTENDS Integers, Sequences, FiniteSets, TLC

(***************************************************************************)
(* Option<T>: None is the empty tuple, Some(v) the one-element tuple.      *)
(***************************************************************************)
None == <<>>

Some(v) == <<v>>

IsSome(o) == o # <<>>

Unwrap(o) == o[1]

unwrap_or(o, d) == IF o # <<>> THEN o[1] ELSE d

(***************************************************************************)
(* The characters of the model and the std::char predicates the code uses. *)
(* "é" stands for a character whose UTF-8 encoding takes two bytes.        *)
(* "U+212A" is the one character KELVIN SIGN: three bytes, uppercase, and  *)
(* its lowercase is the one-byte letter k.                                 *)
(***************************************************************************)
LowerChars == {"a", "b", "c", "e", "k", "s", "z"}

UpperChars == {"A", "B"}

DigitChars == {"0", "1", "2", "3", "4", "5", "6", "7", "8", "9"}

WhitespaceChars == {" ", "\n", "\t"}

TwoByteChars == {"é"}

ThreeByteChars == {"U+212A"}

len_utf8(c) == IF c \in ThreeByteChars THEN 3 ELSE IF c \in TwoByteChars THEN 2 ELSE 1

is_uppercase(c) == c \in UpperChars \cup ThreeByteChars

is_lowercase(c) == c \in LowerChars \cup TwoByteChars

is_ascii_digit(c) == c \in DigitChars

is_alphabetic(c) == c \in LowerChars \cup UpperChars \cup TwoByteChars \cup ThreeByteChars

is_alphanumeric(c) == is_alphabetic(c) \/ c \in DigitChars

is_whitespace(c) == c \in WhitespaceChars

to_lowercase(c) ==
    CASE c = "A" -> "a"
      [] c = "B" -> "b"
      [] c = "U+212A" -> "k"
      [] OTHER -> c

(***************************************************************************)
(* AstNode and CharClass (parser/mod.rs).  Option<usize> fields are        *)
(* Options as above; Box<AstNode> is the node itself.                      *)
(***************************************************************************)
Literal(c) == [kind |-> "Literal", c |-> c]

CharClassNode(class) == [kind |-> "CharClass", class |-> class]

Shorthand(name) == [name |-> name]

CharSet(chars, negated) == [name |-> "Set", chars |-> chars, negated |-> negated]

CharRange(start, end) == [start |-> start, end |-> end]

StartAnchor == [kind |-> "StartAnchor"]

EndAnchor == [kind |-> "EndAnchor"]

WordBoundary == [kind |-> "WordBoundary"]

StartWord == [kind |-> "StartWord"]

EndWord == [kind |-> "EndWord"]

SetMatchStart == [kind |-> "SetMatchStart"]

SetMatchEnd == [kind |-> "SetMatchEnd"]

ZeroOrMore(node, greedy) == [kind |-> "ZeroOrMore", node |-> node, greedy |-> greedy]

OneOrMore(node, greedy) == [kind |-> "OneOrMore", node |-> node, greedy |-> greedy]

Optional(node, greedy) == [kind |-> "Optional", node |-> node, greedy |-> greedy]

Exact(node, count) == [kind |-> "Exact", node |-> node, count |-> count]

Range(node, min, max, greedy) ==
    [kind |-> "Range", node |-> node, min |-> min, max |-> max, greedy |-> greedy]

Group(nodes, name, capture, index) ==
    [kind |-> "Group", nodes |-> nodes, name |-> name, capture |-> capture, index |-> index]

Alternation(alts) == [kind |-> "Alternation", alts |-> alts]

Backref(n) == [kind |-> "Backref", n |-> n]

LookAhead(nodes, positive) == [kind |-> "LookAhead", nodes |-> nodes, positive |-> positive]

LookBehind(nodes, positive) == [kind |-> "LookBehind", nodes |-> nodes, positive |-> positive]

(***************************************************************************)
(* Flags (flags/mod.rs).  Flags::default() leaves ignore_case unset.       *)
(***************************************************************************)
FlagsDefault ==
    [ignore_case |-> None, multiline |-> FALSE, dotall |-> FALSE,
     verbose |-> FALSE, unicode |-> FALSE, global |-> FALSE]

(***************************************************************************)
(* Parser (parser/mod.rs).  p is the immutable part of the Parser (input,  *)
(* flags), st the mutable part (pos, group_count).  Every parse function   *)
(* returns Ok(value, st') or Err(error).                                   *)
(***************************************************************************)
ParserNew(pattern, flags) == [input |-> pattern, flags |-> flags]

ParserState0 == [pos |-> 0, group_count |-> 0]

Ok(val, st) == [ok |-> TRUE, val |-> val, st |-> st]

Err(kind, arg) == [ok |-> FALSE, err |-> [kind |-> kind, arg |-> arg]]

current(p, st) ==
    IF st.pos < Len(p.input) THEN Some(p.input[st.pos + 1]) ELSE None

peek_ahead(p, st, n) ==
    IF st.pos + n < Len(p.input) THEN Some(p.input[st.pos + n + 1]) ELSE None

peek(p, st) == current(p, st)

consume(p, st) ==
    IF IsSome(current(p, st))
    THEN Ok(Unwrap(current(p, st)), [st EXCEPT !.pos = @ + 1])
    ELSE Err("UnexpectedEof", "")

RECURSIVE skip_comment(_, _)
skip_comment(p, st) ==
    IF st.pos < Len(p.input) /\ p.input[st.pos + 1] # "\n"
    THEN skip_comment(p, [st EXCEPT !.pos = @ + 1])
    ELSE st

\* Skipping whitespace only: a `#` ends the run.
RECURSIVE skip_whitespace(_, _)
skip_whitespace(p, st) ==
    IF ~p.flags.verbose THEN st
    ELSE IF st.pos < Len(p.input) /\ is_whitespace(p.input[st.pos + 1])
    THEN skip_whitespace(p, [st EXCEPT !.pos = @ + 1])
    ELSE st

RECURSIVE skip_whitespace_and_comments(_, _)
skip_whitespace_and_comments(p, st) ==
    IF ~p.flags.verbose THEN st
    ELSE IF st.pos < Len(p.input)
    THEN LET ch == p.input[st.pos + 1] IN
         IF is_whitespace(ch)
         THEN skip_whitespace_and_comments(p, [st EXCEPT !.pos = @ + 1])
         ELSE IF ch = "#"
         THEN skip_whitespace_and_comments(p, skip_comment(p, [st EXCEPT !.pos = @ + 1]))
         ELSE st
    ELSE st

RECURSIVE parse_number_loop(_, _, _, _)
parse_number_loop(p, st, num, found) ==
    LET cur == current(p, st) IN
    IF IsSome(cur) /\ Unwrap(cur) \in DigitChars
    THEN parse_number_loop(p, consume(p, st).st,
                           num * 10 + (CHOOSE d \in 0..9 : ToString(d) = Unwrap(cur)), TRUE)
    ELSE IF ~found THEN Err("InvalidLineNumber", "expected digits")
    ELSE Ok(num, st)

parse_number(p, st) == parse_number_loop(p, st, 0, FALSE)

expect_close_paren(p, st) ==
    IF current(p, st) # Some(")") THEN Err("UnmatchedParen", "")
    ELSE Ok(TRUE, consume(p, st).st)

RECURSIVE parse_group_name_loop(_, _, _)
parse_group_name_loop(p, st, name) ==
    LET cur == current(p, st) IN
    IF IsSome(cur) /\ (is_alphanumeric(Unwrap(cur)) \/ Unwrap(cur) = "_")
    THEN parse_group_name_loop(p, consume(p, st).st, Append(name, Unwrap(cur)))
    ELSE IF name = <<>> THEN Err("InvalidGroupName", "empty name")
    ELSE Ok(name, st)

parse_group_name(p, st) == parse_group_name_loop(p, st, <<>>)

\* The trailing `?` that makes a quantifier lazy (apply_quantifier and
\* parse_bounded_quantifier share the three lines).
lazy_mark(p, st) ==
    LET greedy == current(p, st) # Some("?") IN
    [greedy |-> greedy, st |-> IF ~greedy THEN consume(p, st).st ELSE st]

parse_bounded_quantifier(p, st0, node) ==
    LET st1 == consume(p, st0).st
        minr == IF current(p, st1) = Some(",") THEN Ok(0, st1) ELSE parse_number(p, st1)
    IN
    IF ~minr.ok THEN minr
    ELSE LET min == minr.val
             st2 == minr.st
         IN
         IF current(p, st2) = Some(",")
         THEN LET st3 == consume(p, st2).st
                  maxr == IF current(p, st3) = Some("}")
                          THEN Ok(None, st3)
                          ELSE LET n == parse_number(p, st3) IN
                               IF n.ok THEN Ok(Some(n.val), n.st) ELSE n
              IN
              IF ~maxr.ok THEN maxr
              ELSE IF current(p, maxr.st) # Some("}")
              THEN Err("InvalidQuantifier", "expected '}'")
              ELSE LET lz == lazy_mark(p, consume(p, maxr.st).st) IN
                   Ok(Range(node, min, maxr.val, lz.greedy), lz.st)
         ELSE IF current(p, st2) = Some("}")
         THEN Ok(Exact(node, min), consume(p, st2).st)
         ELSE Err("InvalidQuantifier", "expected ',' or '}'")

apply_quantifier(p, st0, node) ==
    LET st == skip_whitespace_and_comments(p, st0)
        cur == current(p, st)
    IN
    IF cur = Some("*")
    THEN LET lz == lazy_mark(p, consume(p, st).st) IN
         Ok(ZeroOrMore(node, lz.greedy), lz.st)
    ELSE IF cur = Some("+")
    THEN LET lz == lazy_mark(p, consume(p, st).st) IN
         Ok(OneOrMore(node, lz.greedy), lz.st)
    ELSE IF cur = Some("?")
    THEN LET lz == lazy_mark(p, consume(p, st).st) IN
         Ok(Optional(node, lz.greedy), lz.st)
    ELSE IF cur = Some("{")
    THEN parse_bounded_quantifier(p, st, node)
    ELSE Ok(node, st)

\* The table of parse_escape: the letters that denote a character class.
EscapeClass ==
    [c \in {"d", "D", "w", "W", "s", "S", "l", "L", "u", "U", "x", "X",
            "o", "O", "h", "H", "p", "P", "a", "A"} |->
        CASE c = "d" -> "Digit"          [] c = "D" -> "NonDigit"
          [] c = "w" -> "Word"           [] c = "W" -> "NonWord"
          [] c = "s" -> "Whitespace"     [] c = "S" -> "NonWhitespace"
          [] c = "l" -> "Lowercase"      [] c = "L" -> "NonLowercase"
          [] c = "u" -> "Uppercase"      [] c = "U" -> "NonUppercase"
          [] c = "x" -> "Hex"            [] c = "X" -> "NonHex"
          [] c = "o" -> "Octal"          [] c = "O" -> "NonOctal"
          [] c = "h" -> "WordStart"      [] c = "H" -> "NonWordStart"
          [] c = "p" -> "Punctuation"    [] c = "P" -> "NonPunctuation"
          [] c = "a" -> "Alphanumeric"   [] c = "A" -> "NonAlphanumeric"]

\* The escapes that denote a control character.
EscapeLiteral ==
    [c \in {"n", "t", "r", "f", "v"} |->
        CASE c = "n" -> "\n" [] c = "t" -> "\t" [] c = "r" -> "\r"
          [] c = "f" -> "\f" [] c = "v" -> "\\v"]

parse_escape(p, st0) ==
    LET st == consume(p, st0).st
        cur == current(p, st)
    IN
    IF cur = None THEN Err("UnexpectedEof", "")
    ELSE LET ch == Unwrap(cur)
             st1 == consume(p, st).st
         IN
         IF ch \in DOMAIN EscapeClass
         THEN Ok(CharClassNode(Shorthand(EscapeClass[ch])), st1)
         ELSE IF ch = "b" THEN Ok(WordBoundary, st1)
         ELSE IF ch = "<" THEN Ok(StartWord, st1)
         ELSE IF ch = ">" THEN Ok(EndWord, st1)
         ELSE IF ch = "z"
         THEN IF current(p, st1) = Some("s") THEN Ok(SetMatchStart, consume(p, st1).st)
              ELSE IF current(p, st1) = Some("e") THEN Ok(SetMatchEnd, consume(p, st1).st)
              ELSE Err("InvalidEscape", "z")
         ELSE IF ch \in DigitChars
         THEN Ok(Backref(CHOOSE d \in 0..9 : ToString(d) = ch), st1)
         ELSE IF ch \in DOMAIN EscapeLiteral THEN Ok(Literal(EscapeLiteral[ch]), st1)
         ELSE Ok(Literal(ch), st1)

RECURSIVE parse_char_class_loop(_, _, _, _)
parse_char_class_loop(p, st, negated, ranges) ==
    LET cur == current(p, st) IN
    IF cur = None THEN Err("UnexpectedEof", "")
    ELSE IF cur = Some("]")
    THEN Ok(CharClassNode(CharSet(ranges, negated)), consume(p, st).st)
    ELSE IF cur = Some("\\")
    THEN LET st1 == consume(p, st).st IN
         IF IsSome(current(p, st1))
         THEN LET c == Unwrap(current(p, st1)) IN
              parse_char_class_loop(p, consume(p, st1).st, negated,
                                    Append(ranges, CharRange(c, c)))
         ELSE Err("UnexpectedEof", "")
    ELSE LET c == Unwrap(cur)
             st1 == consume(p, st).st
         IN
         IF current(p, st1) = Some("-")
            /\ IsSome(peek_ahead(p, st1, 1))
            /\ peek_ahead(p, st1, 1) # Some("]")
         THEN LET st2 == consume(p, st1).st IN
              IF IsSome(current(p, st2))
              THEN parse_char_class_loop(p, consume(p, st2).st, negated,
                       Append(ranges, CharRange(c, Unwrap(current(p, st2)))))
              ELSE Err("UnexpectedEof", "")
         ELSE parse_char_class_loop(p, st1, negated, Append(ranges, CharRange(c, c)))

parse_char_class(p, st0) ==
    LET st == consume(p, st0).st
        negated == current(p, st) = Some("^")
    IN parse_char_class_loop(p, IF negated THEN consume(p, st).st ELSE st, negated, <<>>)

RECURSIVE parse_alternation(_, _)
RECURSIVE parse_alternation_loop(_, _, _, _)
RECURSIVE parse_sequence_loop(_, _, _)

\* `self.expect_close_paren()?` after `let nodes = self.parse_alternation()?`.
close_group(p, body) ==
    IF ~body.ok THEN body
    ELSE LET close == expect_close_paren(p, body.st) IN
         IF ~close.ok THEN close
         ELSE Ok(body.val, close.st)

\* `let nodes = self.parse_alternation()?; self.expect_close_paren()?;`,
\* shared by every kind of group; the caller builds the node from the nodes.
group_body(p, st) == close_group(p, parse_alternation(p, st))

\* Ok(AstNode::Group { nodes, name, capture, index })
ok_group(g, name, capture, index) ==
    IF ~g.ok THEN g ELSE Ok(Group(g.val, name, capture, index), g.st)

\* Ok(AstNode::LookAhead { nodes, positive })
ok_lookahead(g, positive) ==
    IF ~g.ok THEN g ELSE Ok(LookAhead(g.val, positive), g.st)

\* Ok(AstNode::LookBehind { nodes, positive })
ok_lookbehind(g, positive) ==
    IF ~g.ok THEN g ELSE Ok(LookBehind(g.val, positive), g.st)

\* The named group `(?<name>...)` once the name is read.
parse_named_group(p, name) ==
    IF ~name.ok THEN name
    ELSE IF current(p, name.st) # Some(">")
    THEN Err("InvalidGroupName", "expected '>'")
    ELSE LET index == name.st.group_count + 1 IN
         ok_group(group_body(p, [consume(p, name.st).st EXCEPT !.group_count = index]),
                  Some(name.val), TRUE, Some(index))

\* The groups that start with `(?<` and with `(?>`; st is past that character.
parse_angle_group(p, st, behind) ==
    IF current(p, st) = Some("=")
    THEN LET g == group_body(p, consume(p, st).st) IN
         IF behind THEN ok_lookbehind(g, TRUE) ELSE ok_lookahead(g, TRUE)
    ELSE IF current(p, st) = Some("!")
    THEN LET g == group_body(p, consume(p, st).st) IN
         IF behind THEN ok_lookbehind(g, FALSE) ELSE ok_lookahead(g, FALSE)
    ELSE IF behind THEN parse_named_group(p, parse_group_name(p, st))
    ELSE Err("InvalidGroup", "Expected = or ! after ?>")

parse_extended_group(p, st) ==
    IF current(p, st) = Some(":")
    THEN ok_group(group_body(p, consume(p, st).st), None, FALSE, None)
    ELSE IF current(p, st) = Some("<")
    THEN parse_angle_group(p, consume(p, st).st, TRUE)
    ELSE IF current(p, st) = Some(">")
    THEN parse_angle_group(p, consume(p, st).st, FALSE)
    ELSE Err("InvalidGroup", "Unknown extension ?")

\* A capturing group numbered when its closing parenthesis is read.
parse_capturing_group_on_close(p, st, index) ==
    LET g == group_body(p, st) IN
    IF ~g.ok THEN g
    ELSE Ok(Group(g.val, None, TRUE, Some(g.st.group_count + 1)),
            [g.st EXCEPT !.group_count = @ + 1])

\* The capturing group `(...)`; st is past the parenthesis.
parse_capturing_group(p, st, index) ==
    ok_group(group_body(p, [st EXCEPT !.group_count = index]), None, TRUE, Some(index))

\* st is past the opening parenthesis.
parse_group_kind(p, st) ==
    IF current(p, st) = Some("?")
    THEN parse_extended_group(p, consume(p, st).st)
    ELSE parse_capturing_group(p, st, st.group_count + 1)

parse_group(p, st0) == parse_group_kind(p, consume(p, st0).st)

parse_atom(p, st) ==
    LET cur == current(p, st) IN
    IF cur = None THEN Err("UnexpectedEof", "")
    ELSE IF cur = Some(".") THEN Ok(CharClassNode(Shorthand("Dot")), consume(p, st).st)
    ELSE IF cur = Some("^") THEN Ok(StartAnchor, consume(p, st).st)
    ELSE IF cur = Some("$") THEN Ok(EndAnchor, consume(p, st).st)
    ELSE IF cur = Some("[") THEN parse_char_class(p, st)
    ELSE IF cur = Some("(") THEN parse_group(p, st)
    ELSE IF cur = Some("\\") THEN parse_escape(p, st)
    ELSE Ok(Literal(Unwrap(cur)), consume(p, st).st)

\* `let node = self.apply_quantifier(atom)?` after `let atom = self.parse_atom()?`.
quantified_atom(p, atom) ==
    IF ~atom.ok THEN atom ELSE apply_quantifier(p, atom.st, atom.val)

\* `nodes.push(node)` and the next round of the loop.
push_node(p, nodes, node) ==
    IF ~node.ok THEN node
    ELSE parse_sequence_loop(p, node.st, Append(nodes, node.val))

\* One round of the loop of parse_sequence, past whitespace and comments.
parse_sequence_round(p, st, nodes) ==
    IF current(p, st) \in {Some("|"), Some(")"), None} THEN Ok(nodes, st)
    ELSE push_node(p, nodes, quantified_atom(p, parse_atom(p, st)))

parse_sequence_loop(p, st0, nodes) ==
    parse_sequence_round(p, skip_whitespace_and_comments(p, st0), nodes)

parse_sequence(p, st) == parse_sequence_loop(p, st, <<>>)

\* `alternatives.push(current); current = self.parse_sequence()?;`
push_alternative(p, alternatives, next) ==
    IF ~next.ok THEN next
    ELSE parse_alternation_loop(p, next.st, alternatives, next.val)

\* `alternatives.push(current)` after the loop, and the result.
alternation_result(all, st) ==
    IF Len(all) = 1 THEN Ok(all[1], st)
    ELSE Ok(<<Alternation(all)>>, st)

parse_alternation_loop(p, st, alternatives, cur_seq) ==
    IF peek(p, st) = Some("|")
    THEN push_alternative(p, Append(alternatives, cur_seq),
                          parse_sequence(p, consume(p, st).st))
    ELSE alternation_result(Append(alternatives, cur_seq), st)

\* The loop of parse_alternation, entered with the first sequence.
parse_alternation_rest(p, first) ==
    IF ~first.ok THEN first
    ELSE parse_alternation_loop(p, first.st, <<>>, first.val)

parse_alternation(p, st) == parse_alternation_rest(p, parse_sequence(p, st))

\* Parser::new(pattern, flags).parse()
parse(pattern, flags) == parse_alternation(ParserNew(pattern, flags), ParserState0)

(***************************************************************************)
(* The text of a Matcher.  Utf8(text) is the byte string of the &str: byte *)
(* k of character c is the pair <<c, k>>, so that byte offsets, character  *)
(* boundaries and byte-wise comparison are those of the program.           *)
(***************************************************************************)
RECURSIVE Utf8(_)
Utf8(text) ==
    IF text = <<>> THEN <<>>
    ELSE [k \in 1..len_utf8(Head(text)) |-> <<Head(text), k>>] \o Utf8(Tail(text))

\* str::is_char_boundary: 0, len, and the first byte of every character.
is_char_boundary(bytes, pos) ==
    \/ pos = 0
    \/ pos = Len(bytes)
    \/ pos < Len(bytes) /\ bytes[pos + 1][2] = 1

\* text[pos..].chars().next() when pos is a character boundary.
chars_next(bytes, pos) ==
    IF pos < Len(bytes) THEN Some(bytes[pos + 1][1]) ELSE None

\* text[..pos].chars().last() when pos is a character boundary.
chars_last(bytes, pos) ==
    IF pos > 0 THEN Some(bytes[pos][1]) ELSE None

\* text.char_indices(): the byte offsets at which a character starts.
char_indices(bytes) == {i \in 0..(Len(bytes) - 1) : bytes[i + 1][2] = 1}

(***************************************************************************)
(* MatchContext and the result of a matching call.  A call gets the        *)
(* context by mutable reference, so the model returns the context as the   *)
(* call left it together with the Option<usize>; res = "Panic" is a slice  *)
(* of the text off a character boundary, or an arithmetic overflow.        *)
(***************************************************************************)
MatchContextNew(group_count) ==
    [captures |-> [i \in 1..(group_count + 1) |-> None],
     match_start_override |-> None,
     match_end_override |-> None]

Match(start, end) == [start |-> start, end |-> end]

SomePos(pos, ctx) == [res |-> "Some", pos |-> pos, ctx |-> ctx]

NonePos(ctx) == [res |-> "None", pos |-> 0, ctx |-> ctx]

PanicAt(ctx) == [res |-> "Panic", pos |-> 0, ctx |-> ctx]

MatcherNew(nodes, flags, text, profile) ==
    [nodes |-> nodes, flags |-> flags, text |-> text, bytes |-> Utf8(text),
     profile |-> profile]

Max2(a, b) == IF a >= b THEN a ELSE b

RECURSIVE count_groups(_)
RECURSIVE count_groups_alts(_)
count_groups_node(node) ==
    CASE node.kind = "Group" ->
            Max2(IF IsSome(node.index) THEN Unwrap(node.index) ELSE 0,
                 count_groups(node.nodes))
      [] node.kind = "Alternation" -> count_groups_alts(node.alts)
      [] node.kind \in {"ZeroOrMore", "OneOrMore", "Optional", "Exact", "Range"} ->
            count_groups(<<node.node>>)
      [] node.kind \in {"LookAhead", "LookBehind"} -> count_groups(node.nodes)
      [] OTHER -> 0

count_groups(nodes) ==
    IF nodes = <<>> THEN 0
    ELSE Max2(count_groups_node(Head(nodes)), count_groups(Tail(nodes)))

count_groups_alts(alts) ==
    IF alts = <<>> THEN 0
    ELSE Max2(count_groups(Head(alts)), count_groups_alts(Tail(alts)))

\* The word-character test that leaves the underscore out.
is_word_char_without_underscore(c) == is_alphanumeric(c)

is_word_char(c) == is_alphanumeric(c) \/ c = "_"

\* panic is TRUE when text[..pos] or text[pos..] is a slice off a boundary.
is_word_boundary(m, pos) ==
    IF ~is_char_boundary(m.bytes, pos) THEN [panic |-> TRUE, val |-> FALSE]
    ELSE LET before == IF pos > 0
                       THEN IsSome(chars_last(m.bytes, pos))
                            /\ is_word_char(Unwrap(chars_last(m.bytes, pos)))
                       ELSE FALSE
             after == IF pos < Len(m.bytes)
                      THEN IsSome(chars_next(m.bytes, pos))
                           /\ is_word_char(Unwrap(chars_next(m.bytes, pos)))
                      ELSE FALSE
         IN [panic |-> FALSE, val |-> before # after]

is_word_char_at(m, pos) ==
    IF pos < Len(m.bytes)
    THEN IF ~is_char_boundary(m.bytes, pos) THEN [panic |-> TRUE, val |-> FALSE]
         ELSE [panic |-> FALSE, val |-> is_word_char(Unwrap(chars_next(m.bytes, pos)))]
    ELSE [panic |-> FALSE, val |-> FALSE]

\* The order of the characters (char comparison in CharClass::Set).
CodePoint(c) ==
    CASE c \in DigitChars -> 48 + (CHOOSE d \in 0..9 : ToString(d) = c)
      [] c = "A" -> 65 [] c = "B" -> 66 [] c = "_" -> 95
      [] c = "a" -> 97 [] c = "b" -> 98 [] c = "c" -> 99 [] c = "e" -> 101
      [] c = "k" -> 107 [] c = "U+212A" -> 8490
      [] c = "s" -> 115 [] c = "z" -> 122 [] c = "é" -> 233
      [] c = "\t" -> 9 [] c = "\n" -> 10 [] c = " " -> 32
      [] OTHER -> 63

is_ascii_punctuation(c) ==
    c \in {"_", "-", "|", "(", ")", "*", "?", "+", ".", "#", "/", "\\", "[", "]", "{", "}", "^", "$"}

match_char_class(m, class, c) ==
    CASE class.name = "Digit" -> is_ascii_digit(c)
      [] class.name = "NonDigit" -> ~is_ascii_digit(c)
      [] class.name = "Word" -> is_alphanumeric(c) \/ c = "_"
      [] class.name = "NonWord" -> ~(is_alphanumeric(c) \/ c = "_")
      [] class.name = "Whitespace" -> is_whitespace(c)
      [] class.name = "NonWhitespace" -> ~is_whitespace(c)
      [] class.name = "Dot" -> m.flags.dotall \/ c # "\n"
      [] class.name = "Lowercase" -> is_lowercase(c)
      [] class.name = "NonLowercase" -> ~is_lowercase(c)
      [] class.name = "Uppercase" -> is_uppercase(c)
      [] class.name = "NonUppercase" -> ~is_uppercase(c)
      [] class.name = "Hex" -> is_ascii_digit(c) \/ c \in {"a", "b", "c", "e", "A", "B"}
      [] class.name = "NonHex" -> ~(is_ascii_digit(c) \/ c \in {"a", "b", "c", "e", "A", "B"})
      [] class.name = "Octal" -> c \in {"0", "1", "2", "3", "4", "5", "6", "7"}
      [] class.name = "NonOctal" -> c \notin {"0", "1", "2", "3", "4", "5", "6", "7"}
      [] class.name = "Alphanumeric" -> is_alphanumeric(c)
      [] class.name = "NonAlphanumeric" -> ~is_alphanumeric(c)
      [] class.name = "Punctuation" -> is_ascii_punctuation(c)
      [] class.name = "NonPunctuation" -> ~is_ascii_punctuation(c)
      [] class.name = "WordStart" -> is_alphabetic(c) \/ c = "_"
      [] class.name = "NonWordStart" -> ~(is_alphabetic(c) \/ c = "_")
      [] class.name = "Set" ->
            LET found == \E i \in 1..Len(class.chars) :
                            /\ CodePoint(c) >= CodePoint(class.chars[i].start)
                            /\ CodePoint(c) <= CodePoint(class.chars[i].end)
            IN IF class.negated THEN ~found ELSE found

\* str::starts_with on text[pos..], byte by byte.
starts_with(bytes, pos, pat) ==
    /\ pos + Len(pat) <= Len(bytes)
    /\ \A i \in 1..Len(pat) : bytes[pos + i] = pat[i]

\* usize subtraction `m - params.min`: it overflows when m < min.  A build
\* with overflow checks panics; a build without them wraps, and the wrapped
\* value exceeds the length of every text (UsizeWrap stands for 2^64).
UsizeWrap == 1073741824

QuantifierParams(min, max, greedy) == [min |-> min, max |-> max, greedy |-> greedy]

RECURSIVE match_nodes(_, _, _, _)
RECURSIVE match_alternation(_, _, _, _, _)
RECURSIVE match_lookbehind(_, _, _, _, _)
RECURSIVE match_quantifier_min(_, _, _, _, _)
RECURSIVE match_quantifier_optional(_, _, _, _, _, _, _)

match_literal(m, c, remaining, pos, ctx) ==
    LET char_len == len_utf8(c) IN
    IF pos + char_len > Len(m.bytes) THEN NonePos(ctx)
    ELSE IF ~is_char_boundary(m.bytes, pos) THEN PanicAt(ctx)
    ELSE LET current_char == Unwrap(chars_next(m.bytes, pos))
             matches == IF unwrap_or(m.flags.ignore_case, FALSE)
                        THEN to_lowercase(c) = to_lowercase(current_char)
                        ELSE starts_with(m.bytes, pos, Utf8(<<c>>))
         IN
         IF matches
         THEN match_nodes(m, remaining, pos + len_utf8(current_char), ctx)
         ELSE NonePos(ctx)

\* The class test on the lowercase fold of the character when the
\* case-insensitive flag is on.
match_char_class_node_folding(m, class, remaining, pos, ctx) ==
    IF ~is_char_boundary(m.bytes, pos) THEN PanicAt(ctx)
    ELSE IF chars_next(m.bytes, pos) = None THEN NonePos(ctx)
    ELSE LET current_char == Unwrap(chars_next(m.bytes, pos)) IN
         IF \/ match_char_class(m, class, current_char)
            \/ /\ unwrap_or(m.flags.ignore_case, FALSE)
               /\ match_char_class(m, class, to_lowercase(current_char))
         THEN match_nodes(m, remaining, pos + len_utf8(current_char), ctx)
         ELSE NonePos(ctx)

match_char_class_node(m, class, remaining, pos, ctx) ==
    IF ~is_char_boundary(m.bytes, pos) THEN PanicAt(ctx)
    ELSE IF chars_next(m.bytes, pos) = None THEN NonePos(ctx)
    ELSE LET current_char == Unwrap(chars_next(m.bytes, pos)) IN
         IF match_char_class(m, class, current_char)
         THEN match_nodes(m, remaining, pos + len_utf8(current_char), ctx)
         ELSE NonePos(ctx)

\* StartAnchor, EndAnchor, WordBoundary, StartWord, EndWord: zero-width tests.
match_assertion(m, node, remaining, pos, ctx) ==
    LET wb == is_word_boundary(m, pos)
        wc == is_word_char_at(m, pos)
        test ==
          CASE node.kind = "StartAnchor" ->
                  [panic |-> FALSE,
                   val |-> \/ pos = 0
                           \/ m.flags.multiline /\ pos > 0 /\ m.bytes[pos] = <<"\n", 1>>]
            [] node.kind = "EndAnchor" ->
                  [panic |-> FALSE,
                   val |-> \/ pos = Len(m.bytes)
                           \/ m.flags.multiline /\ pos < Len(m.bytes)
                              /\ m.bytes[pos + 1] = <<"\n", 1>>]
            [] node.kind = "WordBoundary" -> wb
            [] node.kind = "StartWord" ->
                  IF wb.panic THEN wb
                  ELSE IF ~wb.val THEN wb
                  ELSE wc
            [] node.kind = "EndWord" ->
                  IF wb.panic THEN wb
                  ELSE IF ~wb.val THEN wb
                  ELSE [panic |-> wc.panic, val |-> ~wc.val]
    IN
    IF test.panic THEN PanicAt(ctx)
    ELSE IF test.val THEN match_nodes(m, remaining, pos, ctx)
    ELSE NonePos(ctx)

\* The alternation without its snapshot: every branch works on the caller's
\* context, so what a failed branch recorded stays for the next branch.
match_alternation_without_snapshot(m, alts, remaining, pos, ctx) ==
    IF alts = <<>> THEN NonePos(ctx)
    ELSE LET branch == match_nodes(m, Head(alts), pos, ctx)
             rest == match_nodes(m, remaining, branch.pos, branch.ctx)
         IN
         IF branch.res = "Panic" THEN PanicAt(ctx)
         ELSE IF branch.res = "Some" /\ rest.res = "Panic" THEN PanicAt(ctx)
         ELSE IF branch.res = "Some" /\ rest.res = "Some"
         THEN SomePos(rest.pos, rest.ctx)
         ELSE match_alternation(m, Tail(alts), remaining, pos,
                                IF branch.res = "Some" THEN rest.ctx ELSE branch.ctx)

\* `for alt in alts`, from the first branch of alts on.
match_alternation(m, alts, remaining, pos, ctx) ==
    IF alts = <<>> THEN NonePos(ctx)
    ELSE LET fork_ctx == ctx
             branch == match_nodes(m, Head(alts), pos, fork_ctx)
             rest == match_nodes(m, remaining, branch.pos, branch.ctx)
         IN
         IF branch.res = "Panic" THEN PanicAt(ctx)
         ELSE IF branch.res = "Some" /\ rest.res = "Panic" THEN PanicAt(ctx)
         ELSE IF branch.res = "Some" /\ rest.res = "Some"
         THEN SomePos(rest.pos, rest.ctx)
         ELSE match_alternation(m, Tail(alts), remaining, pos, ctx)

match_group(m, node, remaining, pos, ctx) ==
    LET start_capture == pos
        body == match_nodes(m, node.nodes, pos, ctx)
    IN
    IF body.res = "Panic" THEN body
    ELSE IF /\ body.res = "Some"
            /\ node.capture
            /\ IsSome(node.index)
            /\ Unwrap(node.index) < Len(body.ctx.captures)
    THEN match_nodes(m, remaining, body.pos,
            [body.ctx EXCEPT !.captures[Unwrap(node.index) + 1] =
                                 Some(Match(start_capture, body.pos))])
    ELSE NonePos(body.ctx)

\* The backreference that takes an unset capture for the empty string.
match_backref_unset_is_empty(m, idx, remaining, pos, ctx) ==
    IF idx < Len(ctx.captures) /\ IsSome(ctx.captures[idx + 1])
    THEN LET mt == Unwrap(ctx.captures[idx + 1])
             captured_text == SubSeq(m.bytes, mt.start + 1, mt.end)
         IN IF starts_with(m.bytes, pos, captured_text)
            THEN match_nodes(m, remaining, pos + Len(captured_text), ctx)
            ELSE NonePos(ctx)
    ELSE match_nodes(m, remaining, pos, ctx)

match_backref(m, idx, remaining, pos, ctx) ==
    IF idx < Len(ctx.captures) /\ IsSome(ctx.captures[idx + 1])
    THEN LET mt == Unwrap(ctx.captures[idx + 1]) IN
         IF \/ mt.start > mt.end
            \/ ~is_char_boundary(m.bytes, mt.start)
            \/ ~is_char_boundary(m.bytes, mt.end)
            \/ ~is_char_boundary(m.bytes, pos)
         THEN PanicAt(ctx)
         ELSE LET captured_text == SubSeq(m.bytes, mt.start + 1, mt.end) IN
              IF starts_with(m.bytes, pos, captured_text)
              THEN match_nodes(m, remaining, pos + Len(captured_text), ctx)
              ELSE NonePos(ctx)
    ELSE NonePos(ctx)

\* The lookahead without its own copy of the context: what the body
\* recorded is handed on to the remaining nodes.
match_lookahead_on_shared_context(m, node, remaining, pos, ctx) ==
    LET look == match_nodes(m, node.nodes, pos, ctx) IN
    IF look.res = "Panic" THEN PanicAt(ctx)
    ELSE IF (look.res = "Some") = node.positive
    THEN match_nodes(m, remaining, pos, look.ctx)
    ELSE NonePos(look.ctx)

match_lookahead(m, node, remaining, pos, ctx) ==
    LET look_ctx == ctx
        look == match_nodes(m, node.nodes, pos, look_ctx)
    IN
    IF look.res = "Panic" THEN PanicAt(ctx)
    ELSE IF (look.res = "Some") = node.positive
    THEN match_nodes(m, remaining, pos, ctx)
    ELSE NonePos(ctx)

\* `for start in 0..=pos`, from start on: "matched", "unmatched" or "Panic".
match_lookbehind(m, look_nodes, start, pos, ctx) ==
    IF start > pos THEN "unmatched"
    ELSE LET look_ctx == ctx
             look == match_nodes(m, look_nodes, start, look_ctx)
         IN
         IF look.res = "Panic" THEN "Panic"
         ELSE IF look.res = "Some" /\ look.pos = pos THEN "matched"
         ELSE match_lookbehind(m, look_nodes, start + 1, pos, ctx)

match_lookbehind_node(m, node, remaining, pos, ctx) ==
    LET matched == match_lookbehind(m, node.nodes, 0, pos, ctx) IN
    IF matched = "Panic" THEN PanicAt(ctx)
    ELSE IF (matched = "matched") = node.positive
    THEN match_nodes(m, remaining, pos, ctx)
    ELSE NonePos(ctx)

\* The optional phase without its copies of the context: the extra
\* iteration and the lazy remainder work on the caller's context, and what
\* they recorded stays when they fail.
match_quantifier_optional_on_shared_context(m, node, max_remaining, greedy, remaining, pos, ctx) ==
    IF max_remaining = Some(0) THEN match_nodes(m, remaining, pos, ctx)
    ELSE LET less == IF IsSome(max_remaining) THEN Some(Unwrap(max_remaining) - 1) ELSE None
             one == match_nodes(m, <<node>>, pos, ctx)
             rest == match_nodes(m, remaining, pos, ctx)
         IN
         IF greedy
         THEN LET more == match_quantifier_optional(m, node, less, greedy, remaining,
                                                    one.pos, one.ctx)
              IN
              IF one.res = "Panic" THEN PanicAt(ctx)
              ELSE IF one.res = "Some" /\ one.pos > pos /\ more.res = "Some"
              THEN SomePos(more.pos, more.ctx)
              ELSE match_nodes(m, remaining, pos,
                               IF one.res = "Some" /\ one.pos > pos THEN more.ctx ELSE one.ctx)
         ELSE IF rest.res = "Panic" THEN PanicAt(ctx)
              ELSE IF rest.res = "Some" THEN SomePos(rest.pos, rest.ctx)
              ELSE LET again == match_nodes(m, <<node>>, pos, rest.ctx) IN
                   IF again.res = "Some" /\ again.pos > pos
                   THEN match_quantifier_optional(m, node, less, greedy, remaining,
                                                  again.pos, again.ctx)
                   ELSE NonePos(again.ctx)

match_quantifier_optional(m, node, max_remaining, greedy, remaining, pos, ctx) ==
    IF max_remaining = Some(0) THEN match_nodes(m, remaining, pos, ctx)
    ELSE LET less == IF IsSome(max_remaining) THEN Some(Unwrap(max_remaining) - 1) ELSE None IN
         IF greedy
         THEN LET fork_ctx == ctx
                  one == match_nodes(m, <<node>>, pos, fork_ctx)
                  more == match_quantifier_optional(m, node, less, greedy, remaining,
                                                    one.pos, one.ctx)
              IN
              IF one.res = "Panic" THEN PanicAt(ctx)
              ELSE IF one.res = "Some" /\ one.pos > pos /\ more.res = "Panic"
              THEN PanicAt(ctx)
              ELSE IF one.res = "Some" /\ one.pos > pos /\ more.res = "Some"
              THEN SomePos(more.pos, more.ctx)
              ELSE match_nodes(m, remaining, pos, ctx)
         ELSE LET fork_ctx == ctx
                  rest == match_nodes(m, remaining, pos, fork_ctx)
                  one == match_nodes(m, <<node>>, pos, ctx)
              IN
              IF rest.res = "Panic" THEN PanicAt(ctx)
              ELSE IF rest.res = "Some" THEN SomePos(rest.pos, rest.ctx)
              ELSE IF one.res = "Panic" THEN one
              ELSE IF one.res = "Some" /\ one.pos > pos
              THEN match_quantifier_optional(m, node, less, greedy, remaining,
                                             one.pos, one.ctx)
              ELSE NonePos(one.ctx)

\* `for _ in 0..params.min`, with n iterations left.
match_quantifier_min(m, node, n, curr_pos, ctx) ==
    IF n = 0 THEN SomePos(curr_pos, ctx)
    ELSE LET one == match_nodes(m, <<node>>, curr_pos, ctx) IN
         IF one.res = "Some"
         THEN match_quantifier_min(m, node, n - 1, one.pos, one.ctx)
         ELSE one

match_quantifier(m, node, params, remaining, pos, ctx) ==
    LET required == match_quantifier_min(m, node, params.min, pos, ctx) IN
    IF required.res # "Some" THEN required
    ELSE IF IsSome(params.max) /\ Unwrap(params.max) < params.min
    THEN IF m.profile = "debug" THEN PanicAt(required.ctx)
         ELSE match_quantifier_optional(m, node,
                  Some(UsizeWrap + Unwrap(params.max) - params.min),
                  params.greedy, remaining, required.pos, required.ctx)
    ELSE match_quantifier_optional(m, node,
             IF IsSome(params.max) THEN Some(Unwrap(params.max) - params.min) ELSE None,
             params.greedy, remaining, required.pos, required.ctx)

match_nodes(m, nodes, pos, ctx) ==
    IF nodes = <<>> THEN SomePos(pos, ctx)
    ELSE LET node == Head(nodes)
             remaining == Tail(nodes)
         IN
         CASE node.kind = "Literal" -> match_literal(m, node.c, remaining, pos, ctx)
           [] node.kind = "CharClass" ->
                 match_char_class_node(m, node.class, remaining, pos, ctx)
           [] node.kind \in {"StartAnchor", "EndAnchor", "WordBoundary",
                             "StartWord", "EndWord"} ->
                 match_assertion(m, node, remaining, pos, ctx)
           [] node.kind = "SetMatchStart" ->
                 match_nodes(m, remaining, pos,
                             [ctx EXCEPT !.match_start_override = Some(pos)])
           [] node.kind = "SetMatchEnd" ->
                 match_nodes(m, remaining, pos,
                             [ctx EXCEPT !.match_end_override = Some(pos)])
           [] node.kind = "Alternation" ->
                 match_alternation(m, node.alts, remaining, pos, ctx)
           [] node.kind = "Group" -> match_group(m, node, remaining, pos, ctx)
           [] node.kind = "Backref" -> match_backref(m, node.n, remaining, pos, ctx)
           [] node.kind = "LookAhead" -> match_lookahead(m, node, remaining, pos, ctx)
           [] node.kind = "LookBehind" ->
                 match_lookbehind_node(m, node, remaining, pos, ctx)
           [] node.kind = "ZeroOrMore" ->
                 match_quantifier(m, node.node, QuantifierParams(0, None, node.greedy),
                                  remaining, pos, ctx)
           [] node.kind = "OneOrMore" ->
                 match_quantifier(m, node.node, QuantifierParams(1, None, node.greedy),
                                  remaining, pos, ctx)
           [] node.kind = "Optional" ->
                 match_quantifier(m, node.node, QuantifierParams(0, Some(1), node.greedy),
                                  remaining, pos, ctx)
           [] node.kind = "Exact" ->
                 match_quantifier(m, node.node,
                                  QuantifierParams(node.count, Some(node.count), TRUE),
                                  remaining, pos, ctx)
           [] node.kind = "Range" ->
                 match_quantifier(m, node.node,
                                  QuantifierParams(node.min, node.max, node.greedy),
                                  remaining, pos, ctx)

(***************************************************************************)
(* Matcher::find.  The result keeps, next to the Option<Match>, the locals *)
(* of find at the return: the start position of the successful attempt,    *)
(* the end position match_nodes returned, and the context of the attempt.  *)
(***************************************************************************)
FoundNone == [res |-> "None"]

FoundPanic == [res |-> "Panic"]

find_attempt(m, max_group, start_pos) ==
    match_nodes(m, m.nodes, start_pos, MatchContextNew(max_group))

find_return(start_pos, attempt) ==
    [res |-> "Some",
     m |-> Match(unwrap_or(attempt.ctx.match_start_override, start_pos),
                 unwrap_or(attempt.ctx.match_end_override, attempt.pos)),
     start_pos |-> start_pos,
     end_pos |-> attempt.pos,
     context |-> attempt.ctx]

RECURSIVE find_loop(_, _, _)
find_loop(m, max_group, start_pos) ==
    IF start_pos < Len(m.bytes) /\ start_pos \notin char_indices(m.bytes)
    THEN find_loop(m, max_group, start_pos + 1)
    ELSE LET attempt == find_attempt(m, max_group, start_pos) IN
         IF attempt.res = "Panic" THEN FoundPanic
         ELSE IF attempt.res = "Some" THEN find_return(start_pos, attempt)
         ELSE IF start_pos < Len(m.bytes) THEN find_loop(m, max_group, start_pos + 1)
         ELSE FoundNone

find(m) == find_loop(m, count_groups(m.nodes), 0)

(***************************************************************************)
(* The Regex facade (regex/mod.rs).                                        *)
(***************************************************************************)
RegexNew(pattern, flags) == [ok |-> TRUE, val |-> [pattern |-> pattern, flags |-> flags]]

RegexFind(regex, text) == None

(***************************************************************************)
(* The state machine.  The inputs (pattern, flags, text, build profile)    *)
(* are fixed by Init; the operations are then applied in the order of a    *)
(* caller that parses, matches with the engine, and then goes through the  *)
(* Regex facade with the same pattern and text.                            *)
(***************************************************************************)
VARIABLES pattern, flags, text, profile, ast, found, regex, regex_found, pc

\* The result of Regex::is_match, and a FindAllIterator with the items its
\* caller has collected and the last call of next.
VARIABLES is_matched, iter, yielded, last_call

\* The input and the result of parse_rift_format.
VARIABLES input, rift

\* One call of Matcher::match_quantifier followed step by step: the
\* quantifier and the attempt it belongs to, the stack of the calls of
\* match_quantifier_optional in progress, and the value being returned.
VARIABLES quant, frames, qret

api_vars == <<is_matched, iter, yielded, last_call>>

rift_vars == <<input, rift>>

quant_vars == <<quant, frames, qret>>

vars == <<pattern, flags, text, profile, ast, found, regex, regex_found, pc,
          api_vars, rift_vars, quant_vars>>

MaxPieces == 3

MaxTextLen == 3

\* The patterns made of at most n pieces of the set PS.
RECURSIVE Patterns(_, _)
Patterns(PS, n) ==
    IF n = 0 THEN {<<>>}
    ELSE LET shorter == Patterns(PS, n - 1) IN
         shorter \cup {q \o piece : q \in shorter, piece \in PS}

\* The texts of at most n characters of the alphabet.
RECURSIVE Texts(_, _)
Texts(alphabet, n) ==
    IF n = 0 THEN {<<>>}
    ELSE LET shorter == Texts(alphabet, n - 1) IN
         shorter \cup {Append(t, c) : t \in shorter, c \in alphabet}

NotParsed == [ok |-> FALSE, err |-> [kind |-> "NotParsed", arg |-> ""]]

NotRun == [res |-> "NotRun"]

NotCompiled == [ok |-> FALSE, err |-> [kind |-> "NotCompiled", arg |-> ""]]

\* The parts of the state an operation has not touched yet.
ApiIdle == is_matched = None /\ iter = NotRun /\ yielded = <<>> /\ last_call = NotRun

RiftIdle == input = <<>> /\ rift = NotRun

QuantIdle == quant = NotRun /\ frames = <<>> /\ qret = NotRun

InitWith(PatternSet, FlagSet, TextSet, ProfileSet) ==
    /\ pattern \in PatternSet
    /\ flags \in FlagSet
    /\ text \in TextSet
    /\ profile \in ProfileSet
    /\ ast = NotParsed
    /\ found = NotRun
    /\ regex = NotCompiled
    /\ regex_found = None
    /\ pc = "start"
    /\ ApiIdle /\ RiftIdle /\ QuantIdle

\* Parser::new(pattern, flags).parse()
ParserParse ==
    /\ pc = "start"
    /\ ast' = parse(pattern, flags)
    /\ pc' = "parsed"
    /\ UNCHANGED <<pattern, flags, text, profile, found, regex, regex_found>>
    /\ UNCHANGED <<api_vars, rift_vars, quant_vars>>

\* Matcher::new(&nodes, &flags, text).find()
MatcherFind ==
    /\ pc = "parsed"
    /\ ast.ok
    /\ found' = find(MatcherNew(ast.val, flags, text, profile))
    /\ pc' = "matched"
    /\ UNCHANGED <<pattern, flags, text, profile, ast, regex, regex_found>>
    /\ UNCHANGED <<api_vars, rift_vars, quant_vars>>

\* Regex::new(pattern, flags)
RegexNewCall ==
    /\ pc = "matched" \/ (pc = "parsed" /\ ~ast.ok)
    /\ regex' = RegexNew(pattern, flags)
    /\ pc' = "compiled"
    /\ UNCHANGED <<pattern, flags, text, profile, ast, found, regex_found>>
    /\ UNCHANGED <<api_vars, rift_vars, quant_vars>>

\* regex.find(text)
RegexFindCall ==
    /\ pc = "compiled"
    /\ regex.ok
    /\ regex_found' = RegexFind(regex.val, text)
    /\ pc' = "done"
    /\ UNCHANGED <<pattern, flags, text, profile, ast, found, regex>>
    /\ UNCHANGED <<api_vars, rift_vars, quant_vars>>

Next == ParserParse \/ MatcherFind \/ RegexNewCall \/ RegexFindCall

(***************************************************************************)
(* Spec: groups, alternations and quantifiers over plain literals.         *)
(***************************************************************************)
GroupPieces ==
    { <<"a">>, <<"b">>, <<"c">>,
      <<"(", "a", "|", "a", "b", ")">>,
      <<"(", "a", "*", ")">>,
      <<"(", "a", "*", "?", ")">>,
      <<"(", "a", "|", "a", "b", ")", "*">>,
      <<"a", "*">>,
      <<"|">> }

Init == InitWith(Patterns(GroupPieces, MaxPieces), {FlagsDefault},
                 Texts({"a", "b", "c"}, MaxTextLen), {"debug"})

Spec == Init /\ [][Next]_vars

(***************************************************************************)
(* The meaning of a pattern, independent of the order in which the engine  *)
(* explores it (spec.md 4.2): Runs(m, nodes, R) is the set of all the ways *)
(* the node sequence can be matched from a run of R.  A run is a position  *)
(* on a character boundary with the overrides and captures recorded on the *)
(* way.  The claims compare the engine's one answer with this set.         *)
(***************************************************************************)
Run0(m, pos) ==
    [pos |-> pos, zs |-> None, ze |-> None,
     caps |-> [i \in 1..(count_groups(m.nodes) + 1) |-> None]]

Boundaries(m) == {i \in 0..Len(m.bytes) : is_char_boundary(m.bytes, i)}

LiteralMatches(m, c, d) ==
    IF unwrap_or(m.flags.ignore_case, FALSE)
    THEN to_lowercase(c) = to_lowercase(d)
    ELSE c = d

AssertionHolds(m, node, pos) ==
    LET word(i) == i >= 1 /\ i <= Len(m.bytes) /\ is_word_char(m.bytes[i][1])
        boundary == word(pos) # word(pos + 1)
    IN
    CASE node.kind = "StartAnchor" ->
            pos = 0 \/ (m.flags.multiline /\ pos > 0 /\ m.bytes[pos][1] = "\n")
      [] node.kind = "EndAnchor" ->
            \/ pos = Len(m.bytes)
            \/ m.flags.multiline /\ pos < Len(m.bytes) /\ m.bytes[pos + 1][1] = "\n"
      [] node.kind = "WordBoundary" -> boundary
      [] node.kind = "StartWord" -> boundary /\ word(pos + 1)
      [] node.kind = "EndWord" -> boundary /\ ~word(pos + 1)

Less(budget) == IF IsSome(budget) THEN Some(Unwrap(budget) - 1) ELSE None

RECURSIVE Runs(_, _, _)
RECURSIVE NodeRuns(_, _, _)
RECURSIVE Exactly(_, _, _, _)
RECURSIVE UpTo(_, _, _, _)

\* All the ways to match the node from the run r.
NodeRuns(m, node, r) ==
    CASE node.kind = "Literal" ->
            IF r.pos < Len(m.bytes) /\ LiteralMatches(m, node.c, m.bytes[r.pos + 1][1])
            THEN {[r EXCEPT !.pos = @ + len_utf8(m.bytes[r.pos + 1][1])]}
            ELSE {}
      [] node.kind = "CharClass" ->
            IF r.pos < Len(m.bytes) /\ match_char_class(m, node.class, m.bytes[r.pos + 1][1])
            THEN {[r EXCEPT !.pos = @ + len_utf8(m.bytes[r.pos + 1][1])]}
            ELSE {}
      [] node.kind \in {"StartAnchor", "EndAnchor", "WordBoundary", "StartWord", "EndWord"} ->
            IF AssertionHolds(m, node, r.pos) THEN {r} ELSE {}
      [] node.kind = "SetMatchStart" -> {[r EXCEPT !.zs = Some(r.pos)]}
      [] node.kind = "SetMatchEnd" -> {[r EXCEPT !.ze = Some(r.pos)]}
      [] node.kind = "Alternation" ->
            UNION {Runs(m, node.alts[i], {r}) : i \in 1..Len(node.alts)}
      [] node.kind = "Group" ->
            IF node.capture /\ IsSome(node.index)
            THEN {[b EXCEPT !.caps[Unwrap(node.index) + 1] = Some(Match(r.pos, b.pos))] :
                      b \in Runs(m, node.nodes, {r})}
            ELSE Runs(m, node.nodes, {r})
      [] node.kind = "Backref" ->
            IF node.n < Len(r.caps) /\ IsSome(r.caps[node.n + 1])
            THEN LET mt == Unwrap(r.caps[node.n + 1]) IN
                 IF starts_with(m.bytes, r.pos, SubSeq(m.bytes, mt.start + 1, mt.end))
                 THEN {[r EXCEPT !.pos = @ + (mt.end - mt.start)]}
                 ELSE {}
            ELSE {}
      [] node.kind = "LookAhead" ->
            IF (Runs(m, node.nodes, {r}) # {}) = node.positive THEN {r} ELSE {}
      [] node.kind = "LookBehind" ->
            IF (\E s \in Boundaries(m) :
                   /\ s <= r.pos
                   /\ \E b \in Runs(m, node.nodes, {[r EXCEPT !.pos = s]}) : b.pos = r.pos)
               = node.positive
            THEN {r} ELSE {}
      [] node.kind = "ZeroOrMore" -> UpTo(m, node.node, None, {r})
      [] node.kind = "OneOrMore" -> UpTo(m, node.node, None, Exactly(m, node.node, 1, {r}))
      [] node.kind = "Optional" -> UpTo(m, node.node, Some(1), {r})
      [] node.kind = "Exact" -> Exactly(m, node.node, node.count, {r})
      [] node.kind = "Range" ->
            IF IsSome(node.max) /\ Unwrap(node.max) < node.min THEN {}
            ELSE UpTo(m, node.node,
                      IF IsSome(node.max) THEN Some(Unwrap(node.max) - node.min) ELSE None,
                      Exactly(m, node.node, node.min, {r}))

\* Exactly n repetitions of the node (the mandatory phase of a quantifier).
Exactly(m, node, n, R) ==
    IF n = 0 \/ R = {} THEN R
    ELSE Exactly(m, node, n - 1, UNION {NodeRuns(m, node, r) : r \in R})

\* At most budget further repetitions, each of which consumes input.
UpTo(m, node, budget, R) ==
    IF R = {} \/ budget = Some(0) THEN R
    ELSE R \cup UpTo(m, node, Less(budget),
                     UNION {{b \in NodeRuns(m, node, r) : b.pos > r.pos} : r \in R})

Runs(m, nodes, R) ==
    IF nodes = <<>> \/ R = {} THEN R
    ELSE Runs(m, Tail(nodes), UNION {NodeRuns(m, Head(nodes), r) : r \in R})

\* The start position s admits a match of the whole pattern.
Admits(m, s) == Runs(m, m.nodes, {Run0(m, s)}) # {}

\* The Matcher of the current state.
TheMatcher == MatcherNew(ast.val, flags, text, profile)

SetMin(S) == CHOOSE x \in S : \A y \in S : x <= y

SetMax(S) == CHOOSE x \in S : \A y \in S : x >= y

\* The attempt of Matcher::find at the start position s.
AttemptAt(m, s) == find_attempt(m, count_groups(m.nodes), s)

\* C1: Matcher::find returns Some iff at least one start position admits a
\* match of the whole pattern, and the returned match was started at the
\* smallest such position (the attempt at len(text) included).
C1_LeftmostStart ==
    pc = "matched" =>
        LET m == TheMatcher
            S == {s \in Boundaries(m) : Admits(m, s)}
        IN IF S = {} THEN found.res = "None"
           ELSE found.res = "Some" /\ found.start_pos = SetMin(S)

\* The kinds of node that occur in the tree.
RECURSIVE Kinds(_)
Kinds(nodes) ==
    IF nodes = <<>> THEN {}
    ELSE LET node == Head(nodes)
             below ==
               CASE node.kind \in {"Group", "LookAhead", "LookBehind"} -> Kinds(node.nodes)
                 [] node.kind = "Alternation" ->
                       UNION {Kinds(node.alts[i]) : i \in 1..Len(node.alts)}
                 [] node.kind \in {"ZeroOrMore", "OneOrMore", "Optional", "Exact", "Range"} ->
                       Kinds(<<node.node>>)
                 [] OTHER -> {}
         IN {node.kind} \cup below \cup Kinds(Tail(nodes))

\* The pattern is made of literals, groups and alternations only, and starts
\* with an alternation, alone or as the body of a capturing group followed
\* by more pattern.
LeadingAlternation(nodes) ==
    /\ nodes # <<>>
    /\ Kinds(nodes) \subseteq {"Literal", "Group", "Alternation"}
    /\ \/ nodes[1].kind = "Alternation"
       \/ /\ nodes[1].kind = "Group"
          /\ nodes[1].capture
          /\ Len(nodes[1].nodes) = 1
          /\ nodes[1].nodes[1].kind = "Alternation"

LeadingAlts(nodes) ==
    IF nodes[1].kind = "Alternation" THEN nodes[1].alts ELSE nodes[1].nodes[1].alts

\* C2: at a given start position an alternation selects the first branch in
\* source order for which the branch followed by everything after the
\* alternation (the text after the enclosing group's parenthesis included)
\* can be completed: the attempt succeeds iff there is such a branch, and it
\* ends where that branch and the rest can end.
C2_FirstCompletingBranch ==
    (pc = "matched" /\ LeadingAlternation(ast.val)) =>
        LET m == TheMatcher
            alts == LeadingAlts(ast.val)
            Completed(i, s) == Runs(m, alts[i] \o Tail(ast.val), {Run0(m, s)})
        IN \A s \in Boundaries(m) :
              LET I == {i \in 1..Len(alts) : Completed(i, s) # {}}
                  attempt == AttemptAt(m, s)
              IN IF I = {} THEN attempt.res = "None"
                 ELSE /\ attempt.res = "Some"
                      /\ attempt.pos \in {r.pos : r \in Completed(SetMin(I), s)}

QuantifierKinds == {"ZeroOrMore", "OneOrMore", "Optional", "Exact", "Range"}

\* The pattern starts with a quantifier, alone or as the body of a capturing
\* group followed by more pattern.
LeadingQuantifier(nodes) ==
    /\ nodes # <<>>
    /\ \/ nodes[1].kind \in QuantifierKinds
       \/ /\ nodes[1].kind = "Group"
          /\ nodes[1].capture
          /\ Len(nodes[1].nodes) = 1
          /\ nodes[1].nodes[1].kind \in QuantifierKinds

LeadingQuant(nodes) ==
    IF nodes[1].kind = "Group" THEN nodes[1].nodes[1] ELSE nodes[1]

QuantMin(q) ==
    CASE q.kind \in {"ZeroOrMore", "Optional"} -> 0
      [] q.kind = "OneOrMore" -> 1
      [] q.kind = "Exact" -> q.count
      [] q.kind = "Range" -> q.min

QuantMax(q) ==
    CASE q.kind \in {"ZeroOrMore", "OneOrMore"} -> None
      [] q.kind = "Optional" -> Some(1)
      [] q.kind = "Exact" -> Some(q.count)
      [] q.kind = "Range" -> q.max

QuantGreedy(q) == IF q.kind = "Exact" THEN TRUE ELSE q.greedy

\* The runs after exactly k repetitions of the quantified node from s: the
\* first min are mandatory, each further one consumes input.
Counted(m, q, k, s) ==
    LET required == Exactly(m, q.node, IF k < QuantMin(q) THEN k ELSE QuantMin(q),
                            {Run0(m, s)})
        Further[j \in 0..Len(m.bytes) + 1] ==
            IF j = 0 THEN required
            ELSE UNION {{b \in NodeRuns(m, q.node, r) : b.pos > r.pos} : r \in Further[j - 1]}
    IN IF k <= QuantMin(q) THEN required
       ELSE IF k - QuantMin(q) > Len(m.bytes) + 1 THEN {}
       ELSE Further[k - QuantMin(q)]

\* C3: in a returned match a greedy quantifier has taken the largest count
\* in min..=max for which the remainder of the whole pattern still matches,
\* and a lazy one the smallest, also when the repeated node is a group and
\* when the quantifier is the body of a capturing group.
C3_GreedyLargestLazySmallest ==
    (pc = "matched" /\ LeadingQuantifier(ast.val)) =>
        LET m == TheMatcher
            q == LeadingQuant(ast.val)
            top == IF IsSome(QuantMax(q)) THEN Unwrap(QuantMax(q))
                   ELSE QuantMin(q) + Len(m.bytes)
            Ends(k, s) == Runs(m, Tail(ast.val), Counted(m, q, k, s))
        IN \A s \in Boundaries(m) :
              LET K == {k \in QuantMin(q)..top : Ends(k, s) # {}}
                  attempt == AttemptAt(m, s)
              IN attempt.res = "Some" =>
                    /\ K # {}
                    /\ attempt.pos \in
                          {r.pos : r \in Ends(IF QuantGreedy(q) THEN SetMax(K) ELSE SetMin(K), s)}

(***************************************************************************)
(* SpecGroups: capturing and non-capturing groups whose body has one way   *)
(* to match.                                                               *)
(***************************************************************************)
PlainGroupPieces ==
    { <<"a">>, <<"b">>,
      <<"(", "a", ")">>,
      <<"(", "a", "|", "b", ")">>,
      <<"(", "?", ":", "a", ")">>,
      <<"(", "?", ":", "a", "|", "b", ")">> }

InitGroups == InitWith(Patterns(PlainGroupPieces, MaxPieces), {FlagsDefault},
                       Texts({"a", "b"}, MaxTextLen), {"debug"})

SpecGroups == InitGroups /\ [][Next]_vars

\* C6: a Group node, capturing or not, matches at pos exactly when its body
\* matches from pos to some body_end and the remainder matches from
\* body_end; the span (pos, body_end) is stored only for a capturing group.
C6_GroupMatchesIffBodyAndRest ==
    (pc = "matched" /\ ast.val # <<>> /\ ast.val[1].kind = "Group") =>
        LET m == TheMatcher
            g == ast.val[1]
        IN \A s \in Boundaries(m) :
              LET bodies == Runs(m, g.nodes, {Run0(m, s)})
                  good == {b \in bodies : Runs(m, Tail(ast.val), {b}) # {}}
                  attempt == AttemptAt(m, s)
              IN /\ (attempt.res = "Some") <=> (good # {})
                 /\ (attempt.res = "Some" /\ g.capture) =>
                       \E b \in good :
                          attempt.ctx.captures[Unwrap(g.index) + 1] = Some(Match(s, b.pos))

(***************************************************************************)
(* SpecOverrides: \zs and \ze among literals, alternation, a repeated      *)
(* group and a lookahead.                                                  *)
(***************************************************************************)
OverridePieces ==
    { <<"a">>, <<"b">>,
      <<"\\", "z", "s">>,
      <<"\\", "z", "e">>,
      <<"|">>,
      <<"(", "\\", "z", "e", "a", ")", "*">>,
      <<"(", "?", ">", "=", "\\", "z", "s", "b", ")">> }

InitOverrides == InitWith(Patterns(OverridePieces, MaxPieces), {FlagsDefault},
                          Texts({"a", "b"}, MaxTextLen), {"debug"})

SpecOverrides == InitOverrides /\ [][Next]_vars

\* C4: every span Matcher::find returns satisfies
\* 0 <= start <= end <= len(text), also when \ze comes before \zs.
C4_SpanWithinText ==
    (pc = "matched" /\ found.res = "Some") =>
        /\ 0 <= found.m.start
        /\ found.m.start <= found.m.end
        /\ found.m.end <= Len(Utf8(text))

\* The tree without its SetMatchStart and SetMatchEnd nodes.
RECURSIVE StripOverrides(_)
StripOverrides(nodes) ==
    IF nodes = <<>> THEN <<>>
    ELSE LET node == Head(nodes)
             rest == StripOverrides(Tail(nodes))
         IN
         CASE node.kind \in {"SetMatchStart", "SetMatchEnd"} -> rest
           [] node.kind \in {"Group", "LookAhead", "LookBehind"} ->
                 <<[node EXCEPT !.nodes = StripOverrides(@)]>> \o rest
           [] node.kind = "Alternation" ->
                 <<[node EXCEPT !.alts = [i \in 1..Len(@) |-> StripOverrides(@[i])]]>> \o rest
           [] node.kind \in {"ZeroOrMore", "OneOrMore", "Optional", "Exact", "Range"} ->
                 <<[node EXCEPT !.node = StripOverrides(<<@>>)[1]]>> \o rest
           [] OTHER -> <<node>> \o rest

\* C7: for a successful attempt started at s that consumed up to e, the
\* reported start is the position of the \zs on the successful path, or s,
\* and the reported end the position of the \ze on that path, or e: the
\* overrides (and captures) of the result are those of one complete way to
\* match the pattern from s to e, never those of a branch that failed; and
\* s and e are those of the pattern without \zs and \ze.
C7_OverridesOfSuccessfulPath ==
    pc = "matched" =>
        LET m == TheMatcher
            plain == find(MatcherNew(StripOverrides(ast.val), flags, text, profile))
        IN /\ found.res = plain.res
           /\ found.res = "Some" =>
                 /\ found.start_pos = plain.start_pos
                 /\ found.end_pos = plain.end_pos
                 /\ \E r \in Runs(m, ast.val, {Run0(m, found.start_pos)}) :
                       /\ r.pos = found.end_pos
                       /\ r.zs = found.context.match_start_override
                       /\ r.ze = found.context.match_end_override
                       /\ r.caps = found.context.captures
                       /\ found.m = Match(unwrap_or(r.zs, found.start_pos),
                                          unwrap_or(r.ze, found.end_pos))

\* Both overrides fired on the successful path, away from the natural
\* bounds of the match.
C7_Witness ==
    /\ pc = "matched"
    /\ found.res = "Some"
    /\ IsSome(found.context.match_start_override)
    /\ IsSome(found.context.match_end_override)
    /\ found.m.start # found.start_pos
    /\ found.m.end # found.end_pos

(***************************************************************************)
(* SpecUtf8: lookbehind and literals over a text with a two-byte           *)
(* character.                                                              *)
(***************************************************************************)
Utf8Pieces ==
    { <<"a">>, <<"é">>, <<".">>,
      <<"(", "?", "<", "=", "a", ")">>,
      <<"(", "?", "<", "!", "a", ")">> }

InitUtf8 == InitWith(Patterns(Utf8Pieces, MaxPieces), {FlagsDefault},
                     Texts({"a", "é"}, MaxTextLen), {"debug", "release"})

SpecUtf8 == InitUtf8 /\ [][Next]_vars

\* C5: matching raises no runtime error: every position at which the text
\* is sliced or decoded lies on a character boundary, so Matcher::find
\* returns Some or None and never aborts.
C5_FindNeverPanics ==
    pc = "matched" => found.res \in {"Some", "None"}

(***************************************************************************)
(* SpecCase: literals of both cases under the three settings of            *)
(* ignore_case.                                                            *)
(***************************************************************************)
CaseFlags ==
    {[FlagsDefault EXCEPT !.ignore_case = ic] : ic \in {None, Some(TRUE), Some(FALSE)}}

InitCase == InitWith(Patterns({<<"a">>, <<"b">>, <<"A">>}, MaxPieces), CaseFlags,
                     Texts({"a", "b", "A"}, MaxTextLen), {"debug"})

SpecCase == InitCase /\ [][Next]_vars

has_uppercase(p) == \E i \in 1..Len(p) : is_uppercase(p[i])

\* C10: with ignore_case unset (smartcase), a pattern without an uppercase
\* character is matched case-insensitively and a pattern with an uppercase
\* character case-sensitively.
C10_SmartcaseWhenUnset ==
    (pc = "matched" /\ flags.ignore_case = None) =>
        found = find(MatcherNew(ast.val,
                                [flags EXCEPT !.ignore_case = Some(~has_uppercase(pattern))],
                                text, profile))

(***************************************************************************)
(* SpecFacade: well-formed and malformed patterns through Regex::new and   *)
(* Regex::find.                                                            *)
(***************************************************************************)
FacadePieces ==
    { <<"a">>, <<"s">>, <<"(">>, <<")">>, <<"?">>, <<"{">>, <<"\\", "z">> }

InitFacade == InitWith(Patterns(FacadePieces, MaxPieces), {FlagsDefault},
                       Texts({"a", "s"}, MaxTextLen), {"debug"})

SpecFacade == InitFacade /\ [][Next]_vars

\* C8: Regex::find(text) is the first match of the pattern: it equals the
\* span Matcher::find computes for the tree Parser::parse builds from the
\* Regex's pattern and flags.
C8_RegexFindIsMatcherFind ==
    (pc = "done" /\ ast.ok) =>
        regex_found = IF found.res = "Some" THEN Some(found.m) ELSE None

\* C9: Regex::new returns a CompileError for every pattern Parser::parse
\* rejects and a compiled Regex only for the patterns the parser accepts.
C9_RegexNewRejectsWhatParserRejects ==
    pc \in {"compiled", "done"} => (regex.ok <=> ast.ok)

(***************************************************************************)
(* SpecNames: named groups, side by side and nested, with equal and with   *)
(* different names.  Every pattern of the universe is well formed apart    *)
(* from its names.                                                         *)
(***************************************************************************)
NamePieces ==
    { <<"a">>,
      <<"(", "?", "<", "a", ">", "a", ")">>,
      <<"(", "?", "<", "b", ">", "a", ")">>,
      <<"(", "?", "<", "a", ">", "(", "?", "<", "b", ">", "a", ")", ")">>,
      <<"(", "?", "<", "b", ">", "(", "?", "<", "b", ">", "a", ")", "a", ")">> }

InitNames == InitWith(Patterns(NamePieces, MaxPieces), {FlagsDefault},
                      Texts({"a"}, MaxTextLen), {"debug"})

SpecNames == InitNames /\ [][Next]_vars

\* The pattern opens a named group at the index i (the `(` of `(?<name>`).
OpensNamedGroup(p, i) ==
    /\ i + 3 <= Len(p)
    /\ p[i] = "(" /\ p[i + 1] = "?" /\ p[i + 2] = "<"
    /\ p[i + 3] \notin {"=", "!"}

\* The name written from the index i on.
RECURSIVE NameFrom(_, _)
NameFrom(p, i) ==
    IF i <= Len(p) /\ (is_alphanumeric(p[i]) \/ p[i] = "_")
    THEN <<p[i]>> \o NameFrom(p, i + 1)
    ELSE <<>>

\* Two named groups of the pattern share a name.
SharesGroupName(p) ==
    \E i, j \in 1..Len(p) :
        /\ i < j
        /\ OpensNamedGroup(p, i) /\ OpensNamedGroup(p, j)
        /\ NameFrom(p, i + 3) = NameFrom(p, j + 3)

\* C11: Parser::parse fails with DuplicateGroupName whenever two named
\* groups of the pattern share a name, whatever their nesting or distance,
\* and succeeds on named groups only when all the names are distinct.
C11_DuplicateGroupNameRejected ==
    pc = "parsed" =>
        IF SharesGroupName(pattern)
        THEN ~ast.ok /\ ast.err.kind = "DuplicateGroupName"
        ELSE ast.ok

(***************************************************************************)
(* SpecBraces: bounded quantifiers after the literal a, well formed and    *)
(* malformed.  In this universe a `{` is always the opening brace of a     *)
(* quantifier, so every parse error is a malformed bounded quantifier.     *)
(***************************************************************************)
BracePieces ==
    { <<"a", "{">>, <<"1">>, <<"2">>, <<",">>, <<"}">>, <<",", "}">>,
      <<",", "2", "}">>, <<"x">> }

InitBraces == InitWith(Patterns(BracePieces, MaxPieces), {FlagsDefault},
                       Texts({"a"}, MaxTextLen), {"debug"})

SpecBraces == InitBraces /\ [][Next]_vars

\* The first index from i on that does not hold a decimal digit.
RECURSIVE DigitsEnd(_, _)
DigitsEnd(p, i) ==
    IF i <= Len(p) /\ p[i] \in DigitChars THEN DigitsEnd(p, i + 1) ELSE i

\* The `{` at the index i opens one of the forms {n}, {n,}, {n,m}, {,m}.
BoundedFormAt(p, i) ==
    LET j == DigitsEnd(p, i + 1) IN
    IF j <= Len(p) /\ p[j] = "}" THEN j > i + 1
    ELSE IF j <= Len(p) /\ p[j] = ","
    THEN LET k == DigitsEnd(p, j + 1) IN
         k <= Len(p) /\ p[k] = "}" /\ (j > i + 1 \/ k > j + 1)
    ELSE FALSE

\* C12: Parser::parse accepts the bounded quantifier forms {n}, {n,}, {n,m}
\* and {,m}, and reports every malformed bounded quantifier (missing closing
\* brace, empty body, non-numeric bound) as InvalidQuantifier and as no
\* other kind of error.
C12_MalformedBracesAreInvalidQuantifier ==
    pc = "parsed" =>
        /\ (\A i \in 1..Len(pattern) : pattern[i] = "{" => BoundedFormAt(pattern, i))
              => ast.ok
        /\ ~ast.ok => ast.err.kind = "InvalidQuantifier"

(***************************************************************************)
(* SpecLazy: the literal a under every quantifier, with and without a      *)
(* trailing `?`, on texts of a and ?.                                      *)
(***************************************************************************)
QuantifierForms ==
    { <<"*">>, <<"+">>, <<"?">>, <<"{", "2", "}">>, <<"{", "1", ",", "}">>,
      <<"{", "1", ",", "2", "}">>, <<"{", ",", "2", "}">> }

LazyPieces == {<<"a">>} \cup QuantifierForms

InitLazy == InitWith(Patterns(LazyPieces, MaxPieces), {FlagsDefault},
                     Texts({"a", "?"}, MaxTextLen), {"debug"})

SpecLazy == InitLazy /\ [][Next]_vars

\* The pattern is the literal a, one quantifier and a `?` right after it.
LazyMarked(p) ==
    /\ Len(p) >= 3
    /\ p[1] = "a" /\ p[Len(p)] = "?"
    /\ SubSeq(p, 2, Len(p) - 1) \in QuantifierForms

\* C13: a `?` right after a quantifier is consumed as the laziness marker of
\* that quantifier and never becomes a node of its own; after the exact form
\* {n} it changes nothing about what is matched.
C13_LazyMarkIsNoNode ==
    (pc = "matched" /\ LazyMarked(pattern)) =>
        /\ Len(ast.val) = 1
        /\ pattern[Len(pattern) - 1] = "}" /\ "," \notin {pattern[i] : i \in 1..Len(pattern)}
              => found = find(MatcherNew(parse(SubSeq(pattern, 1, Len(pattern) - 1), flags).val,
                                         flags, text, profile))

(***************************************************************************)
(* Regex::is_match and FindAllIterator (regex/mod.rs).                     *)
(***************************************************************************)
\* is_match decided by the engine while find is still the stub.
RegexIsMatch_by_engine(re, t) ==
    LET tree == parse(re.pattern, re.flags) IN
    tree.ok /\ find(MatcherNew(tree.val, re.flags, t, "debug")).res = "Some"

\* self.find(text).is_some()
RegexIsMatch(re, t) == IsSome(RegexFind(re, t))

\* Regex::find_all
FindAllIteratorNew(re, t) == [text |-> Utf8(t), regex |-> re, last_end |-> 0]

\* `&self.text[self.last_end..]` can be taken: last_end is within the text
\* and on a character boundary.
sliceable(it) ==
    it.last_end <= Len(it.text) /\ is_char_boundary(it.text, it.last_end)

\* The value of `self.regex.find(&self.text[self.last_end..])`.  Regex::find
\* is a stub that returns None; the iterator is written for a find that
\* returns spans of the slice, so the value is drawn from None and from
\* every span of the slice that lies on character boundaries.
UnderlyingFind(it) ==
    LET K == {k \in 0..(Len(it.text) - it.last_end) :
                  is_char_boundary(it.text, it.last_end + k)}
    IN {RegexFind(it.regex, it.text)} \cup
       {Some(Match(p[1], p[2])) : p \in {q \in K \X K : q[1] <= q[2]}}

\* next without the step past an empty match.
FindAllIteratorNext_without_progress(it, m) ==
    IF it.last_end > Len(it.text) THEN [res |-> "None", it |-> it]
    ELSE IF ~is_char_boundary(it.text, it.last_end) THEN [res |-> "Panic", it |-> it]
    ELSE IF m = None THEN [res |-> "None", it |-> it]
    ELSE LET adjusted == Match(it.last_end + Unwrap(m).start, it.last_end + Unwrap(m).end) IN
         [res |-> "Some", m |-> adjusted, it |-> [it EXCEPT !.last_end = adjusted.end]]

\* FindAllIterator::next, m being the value of the call of find.
FindAllIteratorNext(it, m) ==
    IF it.last_end > Len(it.text) THEN [res |-> "None", it |-> it]
    ELSE IF ~is_char_boundary(it.text, it.last_end) THEN [res |-> "Panic", it |-> it]
    ELSE IF m = None THEN [res |-> "None", it |-> it]
    ELSE LET adjusted == Match(it.last_end + Unwrap(m).start, it.last_end + Unwrap(m).end) IN
         [res |-> "Some", m |-> adjusted,
          it |-> [it EXCEPT !.last_end = Max2(adjusted.end, adjusted.start + 1)]]

\* regex.is_match(text)
RegexIsMatchCall ==
    /\ pc = "done"
    /\ is_matched' = Some(RegexIsMatch(regex.val, text))
    /\ pc' = "asked"
    /\ UNCHANGED <<pattern, flags, text, profile, ast, found, regex, regex_found>>
    /\ UNCHANGED <<iter, yielded, last_call, rift_vars, quant_vars>>

\* regex.find_all(text)
RegexFindAllCall ==
    /\ pc = "asked"
    /\ iter' = FindAllIteratorNew(regex.val, text)
    /\ yielded' = <<>>
    /\ pc' = "iterating"
    /\ UNCHANGED <<pattern, flags, text, profile, ast, found, regex, regex_found>>
    /\ UNCHANGED <<is_matched, last_call, rift_vars, quant_vars>>

\* One call of next by the caller of find_all, which collects the items.
FindAllNextCall ==
    /\ pc = "iterating"
    /\ \E m \in (IF sliceable(iter) THEN UnderlyingFind(iter) ELSE {None}) :
          LET r == FindAllIteratorNext(iter, m) IN
          /\ iter' = r.it
          /\ yielded' = IF r.res = "Some" THEN Append(yielded, r.m) ELSE yielded
          /\ last_call' = [last_end |-> iter.last_end, found |-> m, res |-> r.res]
          /\ pc' = CASE r.res = "Some" -> "iterating"
                     [] r.res = "None" -> "exhausted"
                     [] r.res = "Panic" -> "panicked"
    /\ UNCHANGED <<pattern, flags, text, profile, ast, found, regex, regex_found>>
    /\ UNCHANGED <<is_matched, rift_vars, quant_vars>>

NextApi == Next \/ RegexIsMatchCall \/ RegexFindAllCall \/ FindAllNextCall

(***************************************************************************)
(* SpecApi: a pattern the parser accepts and one it rejects, through       *)
(* is_match and find_all on texts with one-byte and two-byte characters.   *)
(***************************************************************************)
InitApi == InitWith({<<"a">>, <<"(">>}, {FlagsDefault},
                    Texts({"a", "é"}, MaxTextLen), {"debug"})

SpecApi == InitApi /\ [][NextApi]_vars

\* C14: a span (s, e) that find returns for the slice text[last_end..] is
\* yielded shifted by last_end, and last_end becomes the old last_end plus
\* max(e, s + 1); so last_end strictly increases at every item, the starts
\* of the items strictly increase, the items do not overlap, there are at
\* most len(text) + 1 of them, and next returns None once last_end is past
\* the text or find returns None.
C14_FindAllAdvances ==
    /\ last_call # NotRun =>
          LET L == last_call.last_end IN
          /\ last_call.res = "Some" =>
                LET s == Unwrap(last_call.found).start
                    e == Unwrap(last_call.found).end
                IN /\ yielded[Len(yielded)] = Match(L + s, L + e)
                   /\ iter.last_end = L + (IF e > s + 1 THEN e ELSE s + 1)
                   /\ iter.last_end > L
          /\ last_call.res # "Some" => iter.last_end = L
          /\ L > Len(iter.text) => last_call.res = "None"
          /\ (sliceable([iter EXCEPT !.last_end = L]) /\ last_call.found = None)
                => last_call.res = "None"
    /\ \A i, j \in 1..Len(yielded) :
          i < j => yielded[i].start < yielded[j].start /\ yielded[i].end <= yielded[j].start
    /\ iter # NotRun => Len(yielded) <= Len(iter.text) + 1

\* Two items were yielded, the first of them an empty match.
C14_Witness ==
    /\ Len(yielded) >= 2
    /\ yielded[1].start = yielded[1].end
    /\ last_call.res = "Some"

\* C15: for every compiled Regex and every text, is_match(text) is true iff
\* find(text) is not None.
C15_IsMatchIffFound ==
    is_matched # None => (Unwrap(is_matched) <=> regex_found # None)

\* is_match and find have both been called on the text.
C15_Witness ==
    /\ pc = "asked"
    /\ is_matched = Some(FALSE)
    /\ regex_found = None
    /\ text # <<>>

(***************************************************************************)
(* parse_rift_format (parsing/mod.rs): `pattern/flags`.                    *)
(***************************************************************************)
\* The first occurrence of the character, where the code takes the last.
\* The offset counted from one character earlier.
one_further(o) == IF o = None THEN None ELSE Some(Unwrap(o) + 1)

RECURSIVE rfind_from_the_left(_, _)
rfind_from_the_left(s, ch) ==
    IF s = <<>> THEN None
    ELSE IF Head(s) = ch THEN Some(0)
    ELSE one_further(rfind_from_the_left(Tail(s), ch))

\* str::rfind: the offset of the last occurrence of the character.
RECURSIVE rfind(_, _)
rfind(s, ch) ==
    IF s = <<>> THEN None
    ELSE IF s[Len(s)] = ch THEN Some(Len(s) - 1)
    ELSE rfind(SubSeq(s, 1, Len(s) - 1), ch)

FlagLetters == {"i", "c", "m", "s", "x", "u", "g"}

\* One arm of `match ch` for a flag letter.
set_flag(fl, ch) ==
    CASE ch = "i" -> [fl EXCEPT !.ignore_case = Some(TRUE)]
      [] ch = "c" -> [fl EXCEPT !.ignore_case = Some(FALSE)]
      [] ch = "m" -> [fl EXCEPT !.multiline = TRUE]
      [] ch = "s" -> [fl EXCEPT !.dotall = TRUE]
      [] ch = "x" -> [fl EXCEPT !.verbose = TRUE]
      [] ch = "u" -> [fl EXCEPT !.unicode = TRUE]
      [] ch = "g" -> [fl EXCEPT !.global = TRUE]

\* The loop over the flag letters that skips a letter it does not know.
RECURSIVE read_flags_skipping_unknown(_, _)
read_flags_skipping_unknown(flag_str, fl) ==
    IF flag_str = <<>> THEN [ok |-> TRUE, val |-> fl]
    ELSE read_flags_skipping_unknown(Tail(flag_str),
             IF Head(flag_str) \in FlagLetters THEN set_flag(fl, Head(flag_str)) ELSE fl)

\* `for ch in flag_str.chars()`
RECURSIVE read_flags(_, _)
read_flags(flag_str, fl) ==
    IF flag_str = <<>> THEN [ok |-> TRUE, val |-> fl]
    ELSE IF Head(flag_str) \in FlagLetters
    THEN read_flags(Tail(flag_str), set_flag(fl, Head(flag_str)))
    ELSE Err("InvalidFlags", Head(flag_str))

\* The case option inferred from the pattern even when a letter set it.
smartcase_over_explicit(p, fl) ==
    [fl EXCEPT !.ignore_case = Some(~has_uppercase(p))]

\* Smartcase: if no explicit case flag, infer from pattern.
smartcase(p, fl) ==
    IF fl.ignore_case = None
    THEN [fl EXCEPT !.ignore_case = Some(~has_uppercase(p))]
    ELSE fl

\* The rest of parse_rift_format once the flag letters are read.
rift_result(p, read) ==
    IF ~read.ok THEN read
    ELSE [ok |-> TRUE, val |-> [pattern |-> p, flags |-> smartcase(p, read.val)]]

\* parse_rift_format once the last slash is found.
split_at(s, last_slash) ==
    IF last_slash = None THEN Err("NoDelimiter", "")
    ELSE rift_result(SubSeq(s, 1, Unwrap(last_slash)),
                     read_flags(SubSeq(s, Unwrap(last_slash) + 2, Len(s)), FlagsDefault))

parse_rift_format(s) == split_at(s, rfind(s, "/"))

\* parse_rift_format(input)
ParseRiftFormatCall ==
    /\ pc = "start"
    /\ rift' = parse_rift_format(input)
    /\ pc' = "rift"
    /\ UNCHANGED <<pattern, flags, text, profile, ast, found, regex, regex_found>>
    /\ UNCHANGED <<api_vars, input, quant_vars>>

NextRift == ParseRiftFormatCall

(***************************************************************************)
(* SpecRift: every input of at most MaxInputLen characters out of a lower  *)
(* case and an upper case letter, the slash, the seven flag letters and a  *)
(* letter that is no flag.                                                 *)
(***************************************************************************)
MaxInputLen == 3

RiftChars == {"a", "A", "/", "z"} \cup FlagLetters

InitRift ==
    /\ input \in Texts(RiftChars, MaxInputLen)
    /\ rift = NotRun
    /\ pattern = <<>> /\ flags = FlagsDefault /\ text = <<>> /\ profile = "debug"
    /\ ast = NotParsed /\ found = NotRun /\ regex = NotCompiled /\ regex_found = None
    /\ pc = "start"
    /\ ApiIdle /\ QuantIdle

SpecRift == InitRift /\ [][NextRift]_vars

\* The characters of the sequence.
Chars(s) == {s[i] : i \in 1..Len(s)}

\* C16: for every pattern P (which may contain `/`) and every string F of
\* flag letters, parse_rift_format(P + "/" + F) returns exactly P as the
\* pattern, and each of the flags m, s, x, u, g is true exactly when its
\* letter occurs in F.
C16_SplitsAtTheRightmostSlash ==
    pc = "rift" =>
        \A k \in 1..Len(input) :
            LET P == SubSeq(input, 1, k - 1)
                F == SubSeq(input, k + 1, Len(input))
            IN (input[k] = "/" /\ Chars(F) \subseteq FlagLetters) =>
                  /\ rift.ok
                  /\ rift.val.pattern = P
                  /\ rift.val.flags.multiline <=> "m" \in Chars(F)
                  /\ rift.val.flags.dotall <=> "s" \in Chars(F)
                  /\ rift.val.flags.verbose <=> "x" \in Chars(F)
                  /\ rift.val.flags.unicode <=> "u" \in Chars(F)
                  /\ rift.val.flags.global <=> "g" \in Chars(F)

\* A pattern that contains a slash was returned, with a flag set.
C16_Witness ==
    /\ pc = "rift" /\ rift.ok
    /\ "/" \in Chars(rift.val.pattern)
    /\ rift.val.flags.global

\* The text after the rightmost slash of an input that has one.
AfterLastSlash(s) ==
    LET k == CHOOSE i \in 1..Len(s) : s[i] = "/" /\ \A j \in (i + 1)..Len(s) : s[j] # "/"
    IN SubSeq(s, k + 1, Len(s))

\* C17: after a successful parse_rift_format the case option is never
\* unset: if the flag letters contain i or c the explicit letter decides
\* (the last of them when both occur), whatever the case of the pattern;
\* if they contain neither, the case is insensitive iff no character of the
\* pattern is uppercase.
C17_CaseIsNeverUnset ==
    (pc = "rift" /\ rift.ok) =>
        LET F == AfterLastSlash(input)
            explicit == {i \in 1..Len(F) : F[i] \in {"i", "c"}}
        IN /\ rift.val.flags.ignore_case # None
           /\ explicit # {} =>
                 \E i \in explicit :
                     /\ \A j \in explicit : j <= i
                     /\ rift.val.flags.ignore_case = Some(F[i] = "i")
           /\ explicit = {} =>
                 rift.val.flags.ignore_case =
                     Some(\A i \in 1..Len(rift.val.pattern) :
                              rift.val.pattern[i] \notin UpperChars)

\* The letter i decided against the case of the pattern.
C17_Witness ==
    /\ pc = "rift" /\ rift.ok
    /\ "A" \in Chars(rift.val.pattern)
    /\ rift.val.flags.ignore_case = Some(TRUE)

\* C18: parse_rift_format returns NoDelimiter iff the input contains no
\* `/`, and InvalidFlags(letter) iff the text after the rightmost `/` has a
\* character outside i, c, m, s, x, u, g, the letter being the first such
\* character; in both cases no pattern and no flags are returned.
C18_RiftErrors ==
    pc = "rift" =>
        /\ (~rift.ok /\ rift.err.kind = "NoDelimiter") <=> "/" \notin Chars(input)
        /\ "/" \in Chars(input) =>
              LET F == AfterLastSlash(input)
                  bad == {i \in 1..Len(F) : F[i] \notin FlagLetters}
              IN /\ (~rift.ok /\ rift.err.kind = "InvalidFlags") <=> bad # {}
                 /\ bad # {} => \E i \in bad : /\ \A j \in bad : i <= j
                                               /\ rift.err.arg = F[i]
        /\ ~rift.ok => DOMAIN rift = {"ok", "err"}

\* An unknown letter was reported although flag letters came before it.
C18_Witness ==
    /\ pc = "rift" /\ ~rift.ok
    /\ rift.err.kind = "InvalidFlags" /\ rift.err.arg = "z"
    /\ Len(input) = 3 /\ input[2] \in FlagLetters

(***************************************************************************)
(* Matcher::match_quantifier and match_quantifier_optional, one activation *)
(* at a time.  `quant` holds what the recursion of the optional phase      *)
(* passes on unchanged (the matcher, the quantified node, greedy, the      *)
(* remaining nodes) and the position the quantifier was entered at;        *)
(* `frames` is the stack of activations of match_quantifier_optional, each *)
(* with its max_remaining, pos and ctx; `qret` is the value of the last    *)
(* return.  The calls of match_nodes on the quantified node and on the     *)
(* remaining nodes are evaluated whole.                                    *)
(***************************************************************************)
\* The test that lets an iteration through although it consumed nothing.
advanced_or_stayed(next_pos, p) == next_pos >= p

\* `next_pos > pos`
advanced(next_pos, p) == next_pos > p

\* The QuantifierParams a quantifier arm of match_nodes passes on.
params_of(node) ==
    CASE node.kind = "ZeroOrMore" -> QuantifierParams(0, None, node.greedy)
      [] node.kind = "OneOrMore" -> QuantifierParams(1, None, node.greedy)
      [] node.kind = "Optional" -> QuantifierParams(0, Some(1), node.greedy)
      [] node.kind = "Exact" -> QuantifierParams(node.count, Some(node.count), TRUE)
      [] node.kind = "Range" -> QuantifierParams(node.min, node.max, node.greedy)

Frame(max_remaining, p, c) == [max_remaining |-> max_remaining, pos |-> p, ctx |-> c]

\* What an activation does next: it calls match_quantifier_optional again
\* with a new frame, or it returns.
Call(f) == [call |-> TRUE, frame |-> f]

Return(r) == [call |-> FALSE, ret |-> r]

\* `max_remaining.map(|m| m - 1)`
one_less(max_remaining) ==
    IF IsSome(max_remaining) THEN Some(Unwrap(max_remaining) - 1) ELSE None

\* match_quantifier after its loop over the required iterations.
quantifier_enter(m, params, required) ==
    IF required.res # "Some" THEN Return(required)
    ELSE IF IsSome(params.max) /\ Unwrap(params.max) < params.min
    THEN IF m.profile = "debug" THEN Return(PanicAt(required.ctx))
         ELSE Call(Frame(Some(UsizeWrap + Unwrap(params.max) - params.min),
                         required.pos, required.ctx))
    ELSE Call(Frame(IF IsSome(params.max) THEN Some(Unwrap(params.max) - params.min)
                    ELSE None,
                    required.pos, required.ctx))

\* The greedy branch once the quantified node was tried at f.pos.
greedy_step(q, f, one) ==
    IF one.res = "Panic" THEN Return(PanicAt(f.ctx))
    ELSE IF one.res = "Some" /\ advanced(one.pos, f.pos)
    THEN Call(Frame(one_less(f.max_remaining), one.pos, one.ctx))
    ELSE Return(match_nodes(q.m, q.remaining, f.pos, f.ctx))

\* The lazy branch once the remaining nodes failed at f.pos.
lazy_more(q, f, one) ==
    IF one.res = "Panic" THEN Return(one)
    ELSE IF one.res = "Some" /\ advanced(one.pos, f.pos)
    THEN Call(Frame(one_less(f.max_remaining), one.pos, one.ctx))
    ELSE Return(NonePos(one.ctx))

\* The lazy branch once the remaining nodes were tried at f.pos.
lazy_step(q, f, rest) ==
    IF rest.res = "Panic" THEN Return(PanicAt(f.ctx))
    ELSE IF rest.res = "Some" THEN Return(SomePos(rest.pos, rest.ctx))
    ELSE lazy_more(q, f, match_nodes(q.m, <<q.node>>, f.pos, f.ctx))

\* match_quantifier_optional from its entry to its recursive call or return.
optional_step(q, f) ==
    IF f.max_remaining = Some(0)
    THEN Return(match_nodes(q.m, q.remaining, f.pos, f.ctx))
    ELSE IF q.greedy
    THEN greedy_step(q, f, match_nodes(q.m, <<q.node>>, f.pos, f.ctx))
    ELSE lazy_step(q, f, match_nodes(q.m, q.remaining, f.pos, f.ctx))

\* match_quantifier_optional after its recursive call returned r.
optional_resume(q, f, r) ==
    IF ~q.greedy THEN r
    ELSE IF r.res = "Panic" THEN PanicAt(f.ctx)
    ELSE IF r.res = "Some" THEN SomePos(r.pos, r.ctx)
    ELSE match_nodes(q.m, q.remaining, f.pos, f.ctx)

\* The positions find tries: every character boundary of the text.
StartPositions(bytes) == char_indices(bytes) \cup {Len(bytes)}

\* find reaches a pattern that starts with a quantifier at start_pos:
\* match_nodes calls match_quantifier.
QuantEnter ==
    /\ pc = "parsed"
    /\ ast.ok
    /\ ast.val # <<>>
    /\ Head(ast.val).kind \in QuantifierKinds
    /\ \E start_pos \in StartPositions(Utf8(text)) :
          LET m == MatcherNew(ast.val, flags, text, profile)
              node == Head(ast.val)
              params == params_of(node)
              entered == quantifier_enter(m, params,
                            match_quantifier_min(m, node.node, params.min, start_pos,
                                MatchContextNew(count_groups(ast.val))))
          IN /\ quant' = [m |-> m, node |-> node.node, greedy |-> params.greedy,
                          remaining |-> Tail(ast.val), start |-> start_pos]
             /\ frames' = IF entered.call THEN <<entered.frame>> ELSE <<>>
             /\ qret' = IF entered.call THEN NotRun ELSE entered.ret
             /\ pc' = IF entered.call THEN "quant" ELSE "returned"
    /\ UNCHANGED <<pattern, flags, text, profile, ast, found, regex, regex_found>>
    /\ UNCHANGED <<api_vars, rift_vars>>

\* The activation on top of the stack calls match_quantifier_optional.
OptionalCall ==
    /\ pc = "quant"
    /\ LET step == optional_step(quant, frames[Len(frames)]) IN
          /\ step.call
          /\ frames' = Append(frames, step.frame)
    /\ UNCHANGED <<pattern, flags, text, profile, ast, found, regex, regex_found, pc>>
    /\ UNCHANGED <<api_vars, rift_vars, quant, qret>>

\* The activation on top of the stack returns without a further call.
OptionalReturn ==
    /\ pc = "quant"
    /\ LET step == optional_step(quant, frames[Len(frames)]) IN
          /\ ~step.call
          /\ qret' = step.ret
    /\ frames' = SubSeq(frames, 1, Len(frames) - 1)
    /\ pc' = IF Len(frames) = 1 THEN "returned" ELSE "unwinding"
    /\ UNCHANGED <<pattern, flags, text, profile, ast, found, regex, regex_found>>
    /\ UNCHANGED <<api_vars, rift_vars, quant>>

\* The caller on top of the stack gets the value of its recursive call.
OptionalResume ==
    /\ pc = "unwinding"
    /\ qret' = optional_resume(quant, frames[Len(frames)], qret)
    /\ frames' = SubSeq(frames, 1, Len(frames) - 1)
    /\ pc' = IF Len(frames) = 1 THEN "returned" ELSE "unwinding"
    /\ UNCHANGED <<pattern, flags, text, profile, ast, found, regex, regex_found>>
    /\ UNCHANGED <<api_vars, rift_vars, quant>>

NextQuant ==
    \/ ParserParse
    \/ QuantEnter
    \/ OptionalCall
    \/ OptionalReturn
    \/ OptionalResume

(***************************************************************************)
(* SpecQuant: patterns that start with a quantifier, over bodies that can  *)
(* match the empty string and bodies that cannot, greedy and lazy, bounded *)
(* and unbounded, with and without nodes after the quantifier; every text  *)
(* of at most MaxTextLen characters out of a, b, e-acute; both build       *)
(* profiles.                                                               *)
(***************************************************************************)
QuantPatterns ==
    {<<"(", ")", "*">>, <<"(", "a", "|", ")", "*">>, <<"(", "a", "|", ")", "+", "?">>,
     <<"(", ")", "*", "?", "b">>, <<"(", "a", "*", ")", "*", "b">>,
     <<"a", "*">>, <<"a", "*", "?">>, <<"a", "*", "a", "b">>, <<"a", "+", "?", "b">>,
     <<"a", "{", "1", ",", "}", "?", "b">>, <<"a", "{", "0", ",", "2", "}">>,
     <<"a", "{", "2", ",", "1", "}">>, <<"a", "{", "2", "}", "b">>,
     <<"é", "*", "a">>, <<"a", "?", "?", "b">>, <<"\\", "z", "s", "*", "a">>}

InitQuant == InitWith(QuantPatterns, {FlagsDefault},
                      Texts({"a", "b", "é"}, MaxTextLen), {"debug", "release"})

SpecQuant == InitQuant /\ [][NextQuant]_vars

\* Along the stack every activation is at a later position than its caller
\* and has one iteration less to spend.
StackAdvances ==
    /\ \A i \in 1..Len(frames) : frames[i].pos <= Len(Utf8(text))
    /\ \A i \in 1..(Len(frames) - 1) :
          /\ frames[i + 1].pos > frames[i].pos
          /\ IsSome(frames[i].max_remaining) =>
                /\ Unwrap(frames[i].max_remaining) > 0
                /\ frames[i + 1].max_remaining = Some(Unwrap(frames[i].max_remaining) - 1)
    /\ Len(frames) <= Len(Utf8(text)) + 1

\* The value the stepwise run returned is the value of match_nodes.
ReturnsWhatMatchNodesReturns ==
    pc = "returned" =>
        qret = match_nodes(quant.m, ast.val, quant.start,
                           MatchContextNew(count_groups(ast.val)))

\* What is left to do: while the optional phase calls itself, the bytes
\* after the position of the activation on top, and then the activations
\* that have not returned yet.
Variant ==
    CASE pc = "quant" ->
            2 * Len(Utf8(text)) + 2 - frames[Len(frames)].pos
      [] pc = "unwinding" -> Len(frames)
      [] pc = "returned" -> 0
      [] OTHER -> 2 * Len(Utf8(text)) + 4

\* A call or a return of the optional phase.
QuantifierStep == pc \in {"quant", "unwinding"} /\ pc' \in {"quant", "unwinding", "returned"}

\* C19: Matcher::find terminates: the optional phase of a quantifier takes
\* an extra iteration only if that iteration consumed at least one byte, so
\* every activation of match_quantifier_optional is at a later position
\* than its caller, the stack is no deeper than the text is long plus one,
\* every call and every return leaves strictly less to do, and the value
\* returned is the one of match_nodes, also over a body that can match the
\* empty string.
C19_QuantifierTerminates ==
    /\ [](StackAdvances /\ ReturnsWhatMatchNodesReturns)
    /\ [][QuantifierStep => (Variant' < Variant /\ Variant' >= 0)]_vars

\* An unbounded quantifier over a body that matched the empty string has
\* returned.
C19_Witness ==
    /\ pc = "returned"
    /\ pattern = <<"(", ")", "*">>
    /\ text # <<>>
    /\ qret.res = "Some"

(***************************************************************************)
(* SpecLook: lookaheads and lookbehinds, positive and negative, whose      *)
(* bodies capture and set \zs or \ze, among literals and a backreference   *)
(* to the first group.                                                     *)
(***************************************************************************)
LookPieces ==
    { <<"a">>,
      <<"(", "?", ">", "=", "(", "a", ")", "\\", "z", "e", ")">>,
      <<"(", "?", ">", "!", "(", "a", ")", "b", ")">>,
      <<"(", "?", "<", "=", "\\", "z", "s", "(", "a", ")", ")">>,
      <<"(", "?", "<", "!", "(", "b", ")", ")">>,
      <<"\\", "1">> }

InitLook == InitWith(Patterns(LookPieces, MaxPieces), {FlagsDefault},
                     Texts({"a", "b"}, MaxTextLen), {"debug"})

SpecLook == InitLook /\ [][Next]_vars

\* Every group and every \zs or \ze of the pattern is inside the body of a
\* lookaround.
OnlyLookaroundsRecord(nodes) ==
    \A i \in 1..Len(nodes) :
        nodes[i].kind \in {"Literal", "Backref", "LookAhead", "LookBehind"}

\* C20: LookAhead and LookBehind are zero-width and leave the match state
\* unchanged: a positive assertion holds iff its body matched and a negative
\* one iff it did not, the remainder is matched at the original position,
\* and what the body captured or set with \zs and \ze is visible neither to
\* the nodes after it nor in the result; so when only lookaround bodies
\* record anything, find answers as the pattern's meaning says, the context
\* of the successful attempt is the untouched one, and the span is the one
\* from the start position to the end of the attempt.
C20_LookaroundLeavesNoTrace ==
    (pc = "matched" /\ OnlyLookaroundsRecord(ast.val)) =>
        LET m == TheMatcher
            S == {s \in Boundaries(m) : Admits(m, s)}
        IN IF S = {} THEN found.res = "None"
           ELSE /\ found.res = "Some"
                /\ found.start_pos = SetMin(S)
                /\ found.end_pos \in {r.pos : r \in Runs(m, m.nodes, {Run0(m, SetMin(S))})}
                /\ found.context = MatchContextNew(count_groups(ast.val))
                /\ found.m = Match(found.start_pos, found.end_pos)

\* A match was found through a positive lookahead whose body captured and
\* set \ze, followed by more pattern.
C20_Witness ==
    /\ pc = "matched"
    /\ found.res = "Some"
    /\ Len(ast.val) >= 2
    /\ ast.val[1].kind = "LookAhead"
    /\ ast.val[1].positive
    /\ count_groups(ast.val) >= 1

(***************************************************************************)
(* SpecBackref: backreferences to a group that took part, to a group in a  *)
(* branch that did not, to group 0 and to a group the pattern has not.     *)
(***************************************************************************)
BackrefPieces ==
    { <<"(", "a", ")">>,
      <<"(", "é", ")">>,
      <<"(", "(", "a", ")", "|", "é", ")">>,
      <<"\\", "1">>, <<"\\", "2">>, <<"\\", "0">> }

InitBackref == InitWith(Patterns(BackrefPieces, MaxPieces), {FlagsDefault},
                        Texts({"a", "é"}, MaxTextLen), {"debug"})

SpecBackref == InitBackref /\ [][Next]_vars

\* The pattern ends with a backreference, after nodes that have one way to
\* match.
EndsWithBackref(nodes) ==
    /\ nodes # <<>>
    /\ nodes[Len(nodes)].kind = "Backref"
    /\ Kinds(nodes) \subseteq {"Literal", "Group", "Alternation", "Backref"}

\* C21: Backref(n) succeeds at pos iff capture n is set with a span [a, b)
\* and text[a..b] occurs at pos, and then consumes b - a bytes; when the
\* capture is unset (the group took no part, n is 0, n is more than the
\* number of groups) the attempt fails and nothing is raised.
C21_BackrefMatchesCapturedText ==
    (pc = "matched" /\ EndsWithBackref(ast.val)) =>
        LET m == TheMatcher
            n == ast.val[Len(ast.val)].n
            before == SubSeq(ast.val, 1, Len(ast.val) - 1)
        IN \A s \in Boundaries(m) :
              LET reached == match_nodes(m, before, s, MatchContextNew(count_groups(ast.val)))
                  attempt == AttemptAt(m, s)
                  isset == /\ reached.res = "Some"
                           /\ n + 1 <= Len(reached.ctx.captures)
                           /\ IsSome(reached.ctx.captures[n + 1])
                  a == Unwrap(reached.ctx.captures[n + 1]).start
                  b == Unwrap(reached.ctx.captures[n + 1]).end
                  occurs == /\ reached.pos + (b - a) <= Len(m.bytes)
                            /\ \A i \in 1..(b - a) : m.bytes[reached.pos + i][1] = m.bytes[a + i][1]
              IN IF isset /\ occurs
                 THEN attempt.res = "Some" /\ attempt.pos = reached.pos + (b - a)
                 ELSE attempt.res = "None"

\* A backreference to a two-byte capture matched and consumed two bytes.
C21_Witness ==
    /\ pc = "matched"
    /\ EndsWithBackref(ast.val)
    /\ found.res = "Some"
    /\ found.m.end - found.m.start = 4
    /\ Len(ast.val) = 2

(***************************************************************************)
(* SpecWord: the word-edge assertions on texts of a letter of two bytes,   *)
(* the underscore and the space.                                           *)
(***************************************************************************)
WordPieces == { <<"\\", "b">>, <<"\\", "<">>, <<"\\", ">">>, <<"_">> }

InitWord == InitWith(Patterns(WordPieces, MaxPieces), {FlagsDefault},
                     Texts({"é", "_", " "}, MaxTextLen), {"debug"})

SpecWord == InitWord /\ [][Next]_vars

\* The character that ends at the byte offset i, or that starts there, is
\* alphanumeric or the underscore; outside the text there is none.
WordBefore(bytes, i) ==
    i > 0 /\ (bytes[i][1] = "_" \/ bytes[i][1] \in LowerChars \cup UpperChars \cup TwoByteChars \cup ThreeByteChars \cup DigitChars)

WordAt(bytes, i) ==
    i < Len(bytes)
    /\ (bytes[i + 1][1] = "_" \/ bytes[i + 1][1] \in LowerChars \cup UpperChars \cup TwoByteChars \cup ThreeByteChars \cup DigitChars)

\* C22: at every position, \b succeeds iff the word-character predicate
\* differs between the character before the position and the character at
\* it, positions outside the text counting as non-word; \< succeeds iff \b
\* does and the character at the position is a word character; \> iff \b
\* does and it is not.
C22_WordEdges ==
    (pc = "matched" /\ Len(ast.val) = 1
        /\ ast.val[1].kind \in {"WordBoundary", "StartWord", "EndWord"}) =>
        LET m == TheMatcher IN
        \A i \in Boundaries(m) :
            LET edge == WordBefore(m.bytes, i) # WordAt(m.bytes, i)
                holds == CASE ast.val[1].kind = "WordBoundary" -> edge
                           [] ast.val[1].kind = "StartWord" -> edge /\ WordAt(m.bytes, i)
                           [] ast.val[1].kind = "EndWord" -> edge /\ ~WordAt(m.bytes, i)
                attempt == AttemptAt(m, i)
            IN /\ attempt.res = (IF holds THEN "Some" ELSE "None")
               /\ holds => attempt.pos = i

\* \> was found at the end of a text that ends with a two-byte letter after
\* an underscore.
C22_Witness ==
    /\ pc = "matched"
    /\ ast.ok /\ ast.val = <<EndWord>>
    /\ text = <<" ", "_", "é">>
    /\ found.res = "Some"
    /\ found.start_pos = 4

(***************************************************************************)
(* SpecSet: custom sets, plain and negated, of lowercase and of uppercase  *)
(* ranges, under every value of the case option.                           *)
(***************************************************************************)
SetPatterns ==
    { <<"[", "a", "-", "c", "]">>, <<"[", "^", "a", "-", "c", "]">>,
      <<"[", "A", "-", "B", "]">>, <<"[", "^", "A", "-", "B", "]">>,
      <<"[", "a", "-", "c", "z", "]">>, <<"[", "B", "-", "b", "]">>,
      <<"[", "z", "-", "a", "]">>, <<"[", "c", "]">> }

InitSet == InitWith(SetPatterns, CaseFlags, Texts({"a", "c", "A", "z"}, MaxTextLen),
                    {"debug"})

SpecSet == InitSet /\ [][Next]_vars

\* Some range of the set holds the character, both ends included.
InSomeRange(chars, d) ==
    \E k \in 1..Len(chars) :
        CodePoint(chars[k].start) <= CodePoint(d) /\ CodePoint(d) <= CodePoint(chars[k].end)

BacktrackPieces ==
    { <<"(", "a", ")", "b">>,
      <<"(", "a", ")">>,
      <<"|">>,
      <<"(", "a", ")", "*">>,
      <<"(", "\\", "z", "s", "a", ")", "*", "?">>,
      <<"(", "?", ">", "=", "(", "a", ")", "\\", "z", "e", ")">> }

InitBacktrack == InitWith(Patterns(BacktrackPieces, MaxPieces), {FlagsDefault},
                          Texts({"a", "b"}, MaxTextLen), {"debug"})

SpecBacktrack == InitBacktrack /\ [][Next]_vars

\* k copies of the node followed by the nodes.
Unrolled(node, k, nodes) == [i \in 1..k |-> node] \o nodes

\* The attempt on the nodes at s with a context nothing was recorded in.
Afresh(m, nodes, s) == match_nodes(m, nodes, s, MatchContextNew(count_groups(m.nodes)))

\* C24: where the engine tries an alternative after a failed attempt, the
\* alternative gets the context as it was before the failed attempt, so a
\* successful attempt ends with the context of the path it took, run on
\* its own from the untouched context: the first alternation branch that
\* matches, the repetitions a greedy or lazy quantifier settled on followed
\* by the remainder, the remainder alone after a lookahead, and in find the
\* attempt at the start position that matched.
C24_FailedAttemptsLeaveNoTrace ==
    (pc = "matched" /\ ast.val # <<>>) =>
        LET m == TheMatcher
            head == ast.val[1]
        IN /\ \A s \in Boundaries(m) :
                 LET attempt == AttemptAt(m, s) IN
                 /\ (head.kind = "Alternation" /\ Len(ast.val) = 1) =>
                       LET K == {k \in 1..Len(head.alts) :
                                    Afresh(m, head.alts[k], s).res = "Some"}
                       IN IF K = {} THEN attempt.res = "None"
                          ELSE attempt = Afresh(m, head.alts[SetMin(K)], s)
                 /\ (head.kind = "ZeroOrMore" /\ attempt.res = "Some") =>
                       \E k \in 0..Len(m.bytes) :
                           attempt = Afresh(m, Unrolled(head.node, k, Tail(ast.val)), s)
                 /\ (head.kind = "LookAhead" /\ attempt.res = "Some") =>
                       attempt = Afresh(m, Tail(ast.val), s)
           /\ found.res = "Some" =>
                 /\ found.context = AttemptAt(m, found.start_pos).ctx
                 /\ \A s \in Boundaries(m) : s < found.start_pos => AttemptAt(m, s).res = "None"

\* A greedy repetition took every a, the group after it failed, and the
\* match was found with one repetition less.
C24_Witness ==
    /\ pc = "matched"
    /\ pattern = <<"(", "a", ")", "*", "(", "a", ")">>
    /\ text = <<"a", "a">>
    /\ found.res = "Some"
    /\ found.context.captures = <<None, Some(Match(0, 1)), Some(Match(1, 2))>>

(***************************************************************************)
(* SpecBehind: lookbehinds whose body has more than one way to match.      *)
(***************************************************************************)
BehindPieces ==
    { <<"a">>, <<"b">>,
      <<"(", "?", "<", "=", "a", "|", "a", "b", ")">>,
      <<"(", "?", "<", "=", "a", "b", "|", "a", ")">>,
      <<"(", "?", "<", "!", "a", "|", "a", "b", ")">>,
      <<"(", "?", "<", "=", "a", "*", "?", ")">> }

InitBehind == InitWith(Patterns(BehindPieces, MaxPieces), {FlagsDefault},
                       Texts({"a", "b"}, MaxTextLen), {"debug"})

SpecBehind == InitBehind /\ [][Next]_vars

\* Some way of matching the nodes from s ends at the position.
CanMatchExactly(m, nodes, s, pos) ==
    \E r \in Runs(m, nodes, {Run0(m, s)}) : r.pos = pos

\* C25: a positive lookbehind at pos succeeds iff there is a start s in
\* 0..=pos such that some way of matching the child sequence from s ends at
\* pos; a negative lookbehind succeeds iff there is no such s.
C25_LookbehindTriesEveryWay ==
    (pc = "matched" /\ Len(ast.val) = 1 /\ ast.val[1].kind = "LookBehind") =>
        LET m == TheMatcher
            look == ast.val[1]
        IN \A i \in Boundaries(m) :
              LET behind == \E s \in 0..i : CanMatchExactly(m, look.nodes, s, i) IN
              AttemptAt(m, i).res = (IF behind = look.positive THEN "Some" ELSE "None")

(***************************************************************************)
(* SpecFold: literals whose lowercase fold has another UTF-8 length than   *)
(* the literal itself.                                                     *)
(***************************************************************************)
FoldPieces == { <<"k">>, <<"U+212A">>, <<"a">>, <<"A">>, <<"é">> }

InitFold == InitWith(Patterns(FoldPieces, MaxPieces), CaseFlags,
                     Texts({"k", "U+212A", "a"}, MaxTextLen), {"debug"})

SpecFold == InitFold /\ [][Next]_vars

\* C26: with the case-insensitive flag on, Literal(c) matches at pos iff
\* there is an input character d at pos whose lowercase fold equals the
\* lowercase fold of c, and the position advances by the UTF-8 length of d,
\* whatever the UTF-8 length of c.
C26_LiteralFoldsWhateverTheLength ==
    (pc = "matched" /\ flags.ignore_case = Some(TRUE)
        /\ Len(ast.val) = 1 /\ ast.val[1].kind = "Literal") =>
        LET m == TheMatcher
            c == ast.val[1].c
        IN \A i \in Boundaries(m) :
              LET attempt == AttemptAt(m, i) IN
              IF i < Len(m.bytes) /\ to_lowercase(c) = to_lowercase(m.bytes[i + 1][1])
              THEN attempt.res = "Some" /\ attempt.pos = i + len_utf8(m.bytes[i + 1][1])
              ELSE attempt.res = "None"

(***************************************************************************)
(* SpecVerbose: whitespace and comments in the pattern, verbose on and     *)
(* off.                                                                    *)
(***************************************************************************)
VerbosePieces ==
    { <<"a">>, <<" ">>, <<"\n">>, <<"#">>, <<"*">>,
      <<"[", " ", "#", "]">>, <<"\\", " ">>, <<"\\", "#">> }

VerboseFlags == {[FlagsDefault EXCEPT !.verbose = v] : v \in BOOLEAN}

InitVerbose == InitWith(Patterns(VerbosePieces, MaxPieces), VerboseFlags,
                        Texts({"a"}, MaxTextLen), {"debug"})

SpecVerbose == InitVerbose /\ [][Next]_vars

\* The pattern from character i on without its unescaped whitespace and
\* comments: a character class and an escape are kept whole.
RECURSIVE Layout(_, _, _)
Layout(p, i, mode) ==
    IF i > Len(p) THEN <<>>
    ELSE LET ch == p[i] IN
         CASE mode = "comment" ->
                 IF ch = "\n" THEN Layout(p, i + 1, "plain") ELSE Layout(p, i + 1, "comment")
           [] mode = "class" ->
                 <<ch>> \o Layout(p, i + 1, IF ch = "]" THEN "plain" ELSE "class")
           [] mode = "escape" -> <<ch>> \o Layout(p, i + 1, "plain")
           [] OTHER ->
                 IF is_whitespace(ch) THEN Layout(p, i + 1, "plain")
                 ELSE IF ch = "#" THEN Layout(p, i + 1, "comment")
                 ELSE <<ch>> \o Layout(p, i + 1, IF ch = "[" THEN "class"
                                                  ELSE IF ch = "\\" THEN "escape"
                                                  ELSE "plain")

WithoutLayout(p) == Layout(p, 1, "plain")

\* The outcome of a parse without the parser's position.
Outcome(r) == IF r.ok THEN [ok |-> TRUE, val |-> r.val] ELSE [ok |-> FALSE, err |-> r.err]

NumberingPieces ==
    { <<"(", "a", ")">>,
      <<"(", "(", "a", ")", "|", "(", "a", ")", ")">>,
      <<"(", "?", ":", "(", "a", ")", ")">>,
      <<"(", "?", "<", "a", ">", "a", ")">>,
      <<"(", "?", ">", "=", "(", "a", ")", ")">>,
      <<"(", "?", "<", "!", "(", "a", ")", ")">>,
      <<"(", "a", ")", "*">>,
      <<"|">> }

InitNumbering == InitWith(Patterns(NumberingPieces, MaxPieces), {FlagsDefault},
                       Texts({"a"}, MaxTextLen), {"debug"})

SpecNumbering == InitNumbering /\ [][Next]_vars

RECURSIVE Concat(_)
Concat(seqs) == IF seqs = <<>> THEN <<>> ELSE Head(seqs) \o Concat(Tail(seqs))

\* The nodes directly under a node, from left to right.
ChildNodes(node) ==
    CASE node.kind \in {"Group", "LookAhead", "LookBehind"} -> node.nodes
      [] node.kind = "Alternation" -> Concat(node.alts)
      [] node.kind \in {"ZeroOrMore", "OneOrMore", "Optional", "Exact", "Range"} ->
            <<node.node>>
      [] OTHER -> <<>>

\* The groups of a tree in the order of their opening parenthesis.
RECURSIVE GroupsInOpeningOrder(_)
GroupsInOpeningOrder(nodes) ==
    IF nodes = <<>> THEN <<>>
    ELSE (IF Head(nodes).kind = "Group" THEN <<Head(nodes)>> ELSE <<>>)
         \o GroupsInOpeningOrder(ChildNodes(Head(nodes)) \o Tail(nodes))

\* The opening parenthesis at i opens a capturing group, named or not.
OpensCapture(p, i) ==
    /\ p[i] = "("
    /\ \/ i = Len(p)
       \/ p[i + 1] # "?"
       \/ i + 3 <= Len(p) /\ p[i + 2] = "<" /\ p[i + 3] \notin {"=", "!"}

\* The groups gs carry the indices 1..k in order, the table has k + 1
\* entries, and k capturing groups were opened in the pattern read.
IndexedInOrder(gs, opened, group_count, table) ==
    LET Capturing(j) == {i \in 1..j : gs[i].capture} IN
    /\ \A j \in DOMAIN gs :
          IF gs[j].capture
          THEN gs[j].index = Some(Cardinality(Capturing(j)))
          ELSE gs[j].index = None
    /\ Cardinality(Capturing(Len(gs))) = opened
    /\ group_count = opened
    /\ Len(table) = opened + 1

\* C28: in every tree parse returns, the capturing groups (named or not)
\* carry the indices 1..k, each once, in the order of their opening
\* parenthesis; non-capturing groups and lookarounds carry none; and the
\* capture table find allocates has k + 1 entries.
C28_GroupIndicesInOpeningOrder ==
    (pc \in {"parsed", "matched"} /\ ast.ok) =>
        /\ IndexedInOrder(GroupsInOpeningOrder(ast.val),
                          Cardinality({i \in 1..ast.st.pos : OpensCapture(pattern, i)}),
                          count_groups(ast.val),
                          MatchContextNew(count_groups(ast.val)).captures)
        /\ (pc = "matched" /\ found.res = "Some") =>
              Len(found.context.captures) = count_groups(ast.val) + 1

\* A non-capturing group around group 1, then the alternation group 2 with
\* groups 3 and 4 in its branches, then the named group 5.
C28_Witness ==
    /\ pc = "parsed" /\ ast.ok /\ Len(ast.val) = 3
    /\ ast.val[1].kind = "Group" /\ ~ast.val[1].capture
    /\ ast.val[1].nodes[1].index = Some(1)
    /\ ast.val[2].kind = "Group" /\ ast.val[2].index = Some(2)
    /\ ast.val[2].nodes[1].kind = "Alternation"
    /\ ast.val[2].nodes[1].alts[2][1].index = Some(4)
    /\ ast.val[3].kind = "Group" /\ ast.val[3].name # None /\ ast.val[3].index = Some(5)
    /\ count_groups(ast.val) = 5

(***************************************************************************)
(* SpecBudget: the bounded quantifiers a{n}, a{n,}, a{,m} and a{n,m} for   *)
(* every n and m up to the longest text, under both build profiles.        *)
(***************************************************************************)
Counts == {ToString(n) : n \in 0..MaxTextLen}

BudgetPatterns ==
    {<<"a", "{", n, "}">> : n \in Counts}
    \cup {<<"a", "{", n, ",", "}">> : n \in Counts}
    \cup {<<"a", "{", ",", n, "}">> : n \in Counts}
    \cup {<<"a", "{", n[1], ",", n[2], "}">> : n \in Counts \X Counts}

InitBudget == InitWith(BudgetPatterns, {FlagsDefault}, Texts({"a"}, MaxTextLen),
                       {"debug", "release"})

SpecBudget == InitBudget /\ [][Next]_vars

\* C29: for every bounded quantifier the parser accepts, the budget
\* max - min that match_quantifier computes is a non-negative integer: the
\* subtraction neither goes below zero (a panic) nor wraps around.
C29_BudgetIsNonNegative ==
    /\ (pc = "parsed" /\ ast.ok) =>
          \A i \in DOMAIN ast.val :
             ast.val[i].kind \in {"Exact", "Range"} =>
                LET params == params_of(ast.val[i]) IN
                IsSome(params.max) => Unwrap(params.max) - params.min >= 0
    /\ pc = "matched" => found.res # "Panic"

(***************************************************************************)
(* SpecParens: patterns with balanced, unclosed and unopened parentheses.  *)
(***************************************************************************)
ParenPieces == { <<"a">>, <<"b">>, <<"(">>, <<")">>, <<"|">>, <<"*">> }

InitParens == InitWith(Patterns(ParenPieces, MaxPieces), {FlagsDefault},
                       Texts({"a"}, MaxTextLen), {"debug"})

SpecParens == InitParens /\ [][Next]_vars

\* The number of groups open after the first i characters of the pattern.
OpenAfter(p, i) ==
    Cardinality({j \in 1..i : p[j] = "("}) - Cardinality({j \in 1..i : p[j] = ")"})

\* Some closing parenthesis of the pattern has no opening parenthesis.
ClosesUnopened(p) == \E i \in 1..Len(p) : p[i] = ")" /\ OpenAfter(p, i - 1) = 0

\* One group with a well-formed body and no closing parenthesis.
Unclosed(p, fl) ==
    /\ Len(p) >= 1 /\ p[1] = "("
    /\ \A i \in 2..Len(p) : p[i] \notin {"(", ")"}
    /\ parse(Tail(p), fl).ok

\* C30: whenever parse returns Ok it has consumed the whole pattern; a
\* closing parenthesis without an opening one is an error and never drops
\* the rest of the pattern; a group with a well-formed body and no closing
\* parenthesis is reported as UnmatchedParen.
C30_ParseConsumesThePattern ==
    pc = "parsed" =>
        /\ ast.ok => ast.st.pos = Len(pattern)
        /\ ClosesUnopened(pattern) => ~ast.ok
        /\ Unclosed(pattern, flags) => ~ast.ok /\ ast.err.kind = "UnmatchedParen"

====
